---- MODULE Spec2Model ----
(***************************************************************************)
(* A model of tmsoup's fingerprinting and duplicate-resolution engine:     *)
(* tmsoup/repair.py, tmsoup/fingerprint.py, tmsoup/file.py, tmsoup/core.py *)
(* and tmsoup/config.py; and of the library around it: tmsoup/tag.py,      *)
(* tmsoup/alias.py, tmsoup/util.py and tmsoup/cli_automation.py.           *)
(*                                                                         *)
(* Names imported by repair.py are resolved to the one definition the      *)
(* repository has for them (file_mtime and file_ids in file.py, tag_files  *)
(* and delete_file_taggings in core.py).                                   *)
(***************************************************************************)
EXTENDS Integers, Sequences, FiniteSets, TLC

VARIABLES
    file,             \* the `file` relation: rows in rowid order
    file_tag,         \* the `file_tag` relation: a set of <<file_id, tagging>>
    setting,          \* the `setting` relation: name -> value
    exists,           \* the paths present on disk (regular files)
    path_cache,       \* value_of_duplicate's default-argument cache
    pc,               \* position of the resolution pass
    limit,            \* the pass's `limit` argument
    dupes_by_setsize, \* the ranked groups in batching order
    itpos,            \* how many groups `it` has yielded
    buffer,           \* the current batch: indices into dupes_by_setsize
    total,            \* the pass's `total`
    taggings,         \* the pass's snapshot file_id -> taggings
    tagging_queue,    \* fingerprint -> queued taggings
    untagging_queue,  \* removed paths queued for tag-record deletion
    invoked,          \* the batches handed to the external action so far
    outcome,          \* how the last operation ended
    call,             \* the last call: the operation and its arguments
    ret,              \* a pure function's result: <<>> before it returns
    tag,              \* the `tag` relation: a set of [id, name]
    alias,            \* the `alias` relation: a set of [id, name]
    alias_tag,        \* the `alias_tag` relation: <<alias_id, tag_id, value_id>>
    _registry         \* cli_automation._registry: subcommand -> executor

passvars == <<pc, limit, dupes_by_setsize, itpos, buffer, total, taggings,
              tagging_queue, untagging_queue, invoked>>
dbvars == <<file, file_tag, setting>>
libvars == <<tag, alias, alias_tag, _registry>>
vars == <<file, file_tag, setting, exists, path_cache, pc, limit,
          dupes_by_setsize, itpos, buffer, total, taggings, tagging_queue,
          untagging_queue, invoked, outcome, call, ret, tag, alias, alias_tag,
          _registry>>

(***************************************************************************)
(* Bounds of the model.                                                    *)
(***************************************************************************)
MaxGroup == 3   \* most catalog rows recorded with one fingerprint
MaxLimit == 4   \* largest `limit` a pass is started with
MaxGone == 2    \* most files one run of the external action deletes
MaxWord == 34   \* longest one-word file name that is scored
MaxMarks == 2   \* most non-zero bytes of a fingerprinted file
MaxCount == 210 \* largest sibling count the multiplier is computed for

None == "None"  \* Python's None

Min(a, b) == IF a <= b THEN a ELSE b
Max(a, b) == IF a >= b THEN a ELSE b

RECURSIVE Concat(_)
Concat(ss) == IF ss = <<>> THEN <<>> ELSE Head(ss) \o Concat(Tail(ss))

Range(s) == {s[k] : k \in DOMAIN s}

RECURSIVE Repeat(_, _)
Repeat(x, n) == IF n = 0 THEN <<>> ELSE <<x>> \o Repeat(x, n - 1)

(***************************************************************************)
(* Text: a string is a sequence of one-character strings.                  *)
(***************************************************************************)
LowerChars == {"a", "b", "c", "d", "e", "f", "g", "h", "i", "j", "l", "m",
               "o", "p", "r", "s", "t", "x", "y"}
UpperChars == {"A", "B"}
DigitChars == {"0", "1", "2", "3", "4", "5", "6", "7", "8", "9"}

\* \w of Python's re: letters, digits and the underscore
IsWordChar(c) == c \in LowerChars \cup UpperChars \cup DigitChars \cup {"_"}

\* \b at the gap before s[i] (i in 1..Len(s)+1)
WordBoundary(s, i) ==
    LET before == i > 1 /\ IsWordChar(s[i - 1])
        after == i <= Len(s) /\ IsWordChar(s[i])
    IN  before # after

\* s[a:b] of Python for 0 <= a, any b (a negative b counts from the end)
Slice(s, a, b) ==
    LET hi == IF b < 0 THEN Max(Len(s) + b, 0) ELSE Min(b, Len(s))
    IN  IF a >= hi THEN <<>> ELSE SubSeq(s, a + 1, hi)

\* str.find(c): the 0-based index of the first c, or -1
Find(s, c) ==
    IF \E k \in DOMAIN s : s[k] = c
    THEN (CHOOSE k \in DOMAIN s : s[k] = c /\ \A j \in 1..(k - 1) : s[j] # c) - 1
    ELSE -1

\* str.rfind(c), 0-based, or -1
RFind(s, c) ==
    IF \E k \in DOMAIN s : s[k] = c
    THEN (CHOOSE k \in DOMAIN s : s[k] = c /\ \A j \in (k + 1)..Len(s) : s[j] # c) - 1
    ELSE -1

\* os.path.splitext(p)[0]: cut at the last dot of the last component, unless
\* only dots precede it in that component
SplitextRoot(p) ==
    LET sep == RFind(p, "/")
        dot == RFind(p, ".")
    IN  IF dot > sep /\ \E k \in (sep + 2)..dot : p[k] # "."
        THEN Slice(p, 0, dot)
        ELSE p

(***************************************************************************)
(* The Descriptiveness Ranker.                                             *)
(***************************************************************************)
WordMinTail == 2    \* the {2,30} of the word pattern
WordMaxTail == 30

\* MatchLenAt with the quantifier {2,3}
MatchLenAtNarrow(s, i) ==
    IF ~(WordBoundary(s, i) /\ i <= Len(s) /\ s[i] \in LowerChars \cup UpperChars)
    THEN 0
    ELSE LET tails == {k \in WordMinTail..3 :
                          /\ i + k <= Len(s)
                          /\ \A j \in (i + 1)..(i + k) : s[j] \in LowerChars
                          /\ WordBoundary(s, i + k + 1)}
         IN  IF tails = {} THEN 0
             ELSE 1 + (CHOOSE k \in tails : \A k2 \in tails : k2 <= k)

\* The length of the match of [A-Za-z][a-z]{2,30}\b starting at s[i], or 0:
\* the quantifier is greedy, so the longest tail that ends at a \b wins.
MatchLenAt(s, i) ==
    IF ~(WordBoundary(s, i) /\ i <= Len(s) /\ s[i] \in LowerChars \cup UpperChars)
    THEN 0
    ELSE LET tails == {k \in WordMinTail..WordMaxTail :
                          /\ i + k <= Len(s)
                          /\ \A j \in (i + 1)..(i + k) : s[j] \in LowerChars
                          /\ WordBoundary(s, i + k + 1)}
         IN  IF tails = {} THEN 0
             ELSE 1 + (CHOOSE k \in tails : \A k2 \in tails : k2 <= k)

\* re.findall: the lengths of the non-overlapping matches, scanning left to right
RECURSIVE FindallLens(_, _)
FindallLens(s, i) ==
    IF i > Len(s) THEN <<>>
    ELSE LET n == MatchLenAt(s, i)
         IN  IF n = 0 THEN FindallLens(s, i + 1)
             ELSE <<n>> \o FindallLens(s, i + n)

RECURSIVE SumSquares(_)
SumSquares(ns) ==
    IF ns = <<>> THEN 0 ELSE Head(ns) * Head(ns) + SumSquares(Tail(ns))

_filename_descriptiveness(filename) ==
    SumSquares(FindallLens(SplitextRoot(filename), 1))

\* the multiplier without the clip at 0.1
_filecount_multiplier_unclipped(c) ==
    IF c <= 10 THEN 442 * c
    ELSE IF c <= 30 THEN 4420 + 119 * (c - 10)
    ELSE 6800 - 35 * Min(c - 30, 170)

\* The multiplier in units of 1/3400, so that every branch is an integer:
\* 1.3*c/10 = 442c/3400, 1.3+0.7(c-10)/20 = (4420+119(c-10))/3400,
\* 2.0-1.75*m/170 = (6800-35m)/3400, 0.1 = 340/3400.
_filecount_multiplier(c) ==
    IF c <= 10 THEN Max(340, 442 * c)
    ELSE IF c <= 30 THEN 4420 + 119 * (c - 10)
    ELSE 6800 - 35 * Min(c - 30, 170)

\* measured_part = join(basename(dirname), basename(path)); a path is a record
\* [dir, name] of the parent directory's basename and the file's name
MeasuredPart(path) == path.dir \o <<"/">> \o path.name

FilenameValueOf(path) == _filename_descriptiveness(MeasuredPart(path))

\* value_of_duplicate, given the sibling count nfiles of the parent directory
ValueOf(path, nfiles) == FilenameValueOf(path) * _filecount_multiplier(nfiles)

(***************************************************************************)
(* The catalog and the disk.  A path is named by its index into the table  *)
(* below; a row of `file` is [id, path, fingerprint, size].                *)
(***************************************************************************)
DirNames == << <<"p", "i", "c", "s">>, <<"t", "m", "p">>, <<"h", "o", "l", "s">> >>
FileNames == << <<"f", "o", "o", ".", "j", "p", "g">>,
                <<"c", "e", "r", "e", "a", "l", " ", "b", "a", "r">>,
                <<"a", "1">>,
                <<"f", "o", "o", "b", "a", "r">>,
                <<"1", "d", "0", "f", ",", "f", "o", "o">> >>

PathOf(p) == [dir |-> DirNames[((p - 1) % Len(DirNames)) + 1],
              name |-> FileNames[(((p - 1) \div Len(DirNames)) % Len(FileNames)) + 1]]

AllPaths == 1..(Len(DirNames) * Len(FileNames))

\* filename_value for every path of the table (lines 125-126)
FilenameValue == [p \in AllPaths |-> FilenameValueOf(PathOf(p))]

Taggings == {"t1", "t2"}        \* (tag_id, value_id) pairs

\* file_id: the id of the row recorded for a path, or None
file_id(f, p) ==
    IF \E k \in DOMAIN f : f[k].path = p
    THEN f[CHOOSE k \in DOMAIN f : f[k].path = p].id
    ELSE None

\* file_ids: path -> id
file_ids(f, paths) == [p \in paths |-> file_id(f, p)]

\* file_tags: path -> taggings, with an entry only for a path that has a
\* file_tag row (the map is filled by setdefault inside the row loop)
file_tags(f, ft, paths) ==
    [p \in {q \in paths : \E t \in Taggings : <<file_id(f, q), t>> \in ft} |->
        {t \in Taggings : <<file_id(f, p), t>> \in ft}]

\* glob(dirname/*) without directories: dot files are not matched by *
DiskCount(ex, d) ==
    Cardinality({p \in ex : PathOf(p).dir = d /\ Head(PathOf(p).name) # "."})

(***************************************************************************)
(* The Duplicate Grouper.  A dict is a sequence of [hash, members] in      *)
(* insertion order.                                                        *)
(***************************************************************************)
Truthy(v) == v # None /\ v # ""

CountFp(f, fp) == Cardinality({k \in DOMAIN f : f[k].fingerprint = fp})

\* Duplicated without the test of fp's truth value
DuplicatedAnyFp(f) ==
    {fp \in {f[k].fingerprint : k \in DOMAIN f} :
        Cardinality({k \in DOMAIN f : f[k].fingerprint = fp}) > 1}

\* duplicated = {fp for fp, count in counter.items() if count > 1 and fp}
Duplicated(f) ==
    {fp \in {f[k].fingerprint : k \in DOMAIN f} : CountFp(f, fp) > 1 /\ Truthy(fp)}

\* duplicates.setdefault(fingerprint, []).append(p)
SetdefaultAppend(groups, fp, p) ==
    IF \E j \in DOMAIN groups : groups[j].hash = fp
    THEN LET j == CHOOSE j \in DOMAIN groups : groups[j].hash = fp
         IN  [groups EXCEPT ![j].members = Append(@, p)]
    ELSE Append(groups, [hash |-> fp, members |-> <<p>>])

RECURSIVE GroupRows(_, _, _, _)
GroupRows(f, k, dup, acc) ==
    IF k > Len(f) THEN acc
    ELSE GroupRows(f, k + 1, dup,
                   IF f[k].fingerprint \in dup
                   THEN SetdefaultAppend(acc, f[k].fingerprint, f[k].path)
                   ELSE acc)

duplicated_paths(f) == GroupRows(f, 1, Duplicated(f), <<>>)

(***************************************************************************)
(* Ranking.  sorted() is stable; reverse=True keeps equal keys in order.   *)
(***************************************************************************)
\* insert x after every element whose key is <= its own
InsertAsc(sorted, x, key) ==
    LET later == {j \in DOMAIN sorted : key[sorted[j]] > key[x]}
        at == IF later = {} THEN Len(sorted) + 1
              ELSE CHOOSE j \in later : \A j2 \in later : j <= j2
    IN  SubSeq(sorted, 1, at - 1) \o <<x>> \o SubSeq(sorted, at, Len(sorted))

\* insert x after every element whose key is >= its own
InsertDesc(sorted, x, key) ==
    LET later == {j \in DOMAIN sorted : key[sorted[j]] < key[x]}
        at == IF later = {} THEN Len(sorted) + 1
              ELSE CHOOSE j \in later : \A j2 \in later : j <= j2
    IN  SubSeq(sorted, 1, at - 1) \o <<x>> \o SubSeq(sorted, at, Len(sorted))

RECURSIVE SortedAsc(_, _, _)
SortedAsc(s, key, acc) ==
    IF s = <<>> THEN acc ELSE SortedAsc(Tail(s), key, InsertAsc(acc, Head(s), key))

RECURSIVE SortedDesc(_, _, _)
SortedDesc(s, key, acc) ==
    IF s = <<>> THEN acc ELSE SortedDesc(Tail(s), key, InsertDesc(acc, Head(s), key))

\* value_of_duplicate: the sibling count comes from the cache when the
\* directory is in it, from a listing of the disk otherwise
value_of_duplicate(p, cache, ex) ==
    LET d == PathOf(p).dir
        nfiles == IF d \in DOMAIN cache THEN cache[d] ELSE DiskCount(ex, d)
    IN  FilenameValue[p] * _filecount_multiplier(nfiles)

\* the cache after value_of_duplicate has been called for every path of ps
CacheAfter(cache, ps, ex) ==
    [d \in DOMAIN cache \cup {PathOf(p).dir : p \in ps} |->
        IF d \in DOMAIN cache THEN cache[d] ELSE DiskCount(ex, d)]

RankGroup(members, cache, ex) ==
    SortedAsc(members, [p \in Range(members) |-> value_of_duplicate(p, cache, ex)], <<>>)

rank_duplicates(groups, cache, ex) ==
    [j \in DOMAIN groups |->
        [hash |-> groups[j].hash, members |-> RankGroup(groups[j].members, cache, ex)]]

(***************************************************************************)
(* The Resolution Orchestrator: _interactive_duplicate_removal.            *)
(***************************************************************************)
DefaultMinimum == 2     \* parse_args: --minimum

ExistCount(members, ex) == Cardinality({j \in DOMAIN members : members[j] \in ex})

\* the paths of a batch, in the order they are handed to the external action
BatchFiles(order, buf) == Concat([j \in DOMAIN buf |-> order[buf[j]].members])

\* hashmap[m]: the fingerprint of the group a path is a member of
HashOf(order, m) ==
    order[CHOOSE j \in DOMAIN order : m \in Range(order[j].members)].hash

\* the loop of invoke over `gone`: setdefault, then update with taggings[id],
\* which raises KeyError for an id the snapshot has no entry for
RECURSIVE QueueGone(_, _, _, _, _)
QueueGone(gone, tq, order, f, tg) ==
    IF gone = <<>> THEN [tq |-> tq, err |-> FALSE]
    ELSE LET h == HashOf(order, Head(gone))
             id == file_id(f, Head(gone))
             tq1 == IF h \in DOMAIN tq THEN tq ELSE tq @@ (h :> {})
         IN  IF id \notin DOMAIN tg
             THEN [tq |-> tq1, err |-> TRUE]
             ELSE QueueGone(Tail(gone), [tq1 EXCEPT ![h] = @ \cup tg[id]], order, f, tg)

\* removed(files): the paths of the batch that are not on disk
Removed(files, ex) == SelectSeq(files, LAMBDA p : p \notin ex)

\* everything the external action may do to the disk when handed `files`
ActionOutcomes(files, ex) ==
    {ex \ D : D \in {D \in SUBSET (Range(files) \cap ex) : Cardinality(D) <= MaxGone}}

\* lines 382-421: collect, rank, order, snapshot the taggings, take the first
\* group.  file_tags inserts the id list into a temporary table, which is a
\* syntax error for an empty list; the 'Average' message divides by the number
\* of snapshot entries.
Collect(lim) ==
    /\ pc = "idle"
    /\ UNCHANGED libvars
    /\ LET groups == SelectSeq(duplicated_paths(file),
                               LAMBDA g : ExistCount(g.members, exists) >= DefaultMinimum)
           ranked == rank_duplicates(groups, path_cache, exists)
           order == SortedDesc(ranked,
                               [g \in Range(ranked) |-> ExistCount(g.members, exists)],
                               <<>>)
           alldupes == UNION {Range(groups[j].members) : j \in DOMAIN groups}
           fidmap == file_ids(file, alldupes)
           ftags == file_tags(file, file_tag, alldupes)
           snapshot == [id \in {fidmap[q] : q \in DOMAIN ftags} |->
                           ftags[CHOOSE q \in DOMAIN ftags : fidmap[q] = id]]
       IN  /\ path_cache' = CacheAfter(path_cache, alldupes, exists)
           /\ limit' = lim
           /\ dupes_by_setsize' = order
           /\ IF alldupes = {}
              THEN /\ pc' = "failed"
                   /\ outcome' = "OperationalError"
                   /\ UNCHANGED <<itpos, buffer, total, taggings>>
              ELSE IF DOMAIN snapshot = {}
              THEN /\ pc' = "failed"
                   /\ outcome' = "ZeroDivisionError"
                   /\ taggings' = snapshot
                   /\ UNCHANGED <<itpos, buffer, total>>
              ELSE /\ pc' = "loop"
                   /\ outcome' = "running"
                   /\ taggings' = snapshot
                   /\ itpos' = 1
                   /\ buffer' = <<1>>
                   /\ total' = Len(order[1].members)
    /\ UNCHANGED <<dbvars, exists, tagging_queue, untagging_queue, invoked, call, ret>>

\* invoke(buffer) once the external action has left the disk as ex2: what is
\* queued, and whether KeyError was raised (untagging_queue is updated only
\* after the loop over `gone`)
invoke(buf, ex2, order, f, tg, tq, uq) ==
    LET gone == Removed(BatchFiles(order, buf), ex2)
        q == QueueGone(gone, tq, order, f, tg)
    IN  [tq |-> q.tq,
         uq |-> IF q.err THEN uq ELSE uq \cup Range(gone),
         err |-> q.err]

\* lines 424-430, `else` branch: the next group joins the batch
Accumulate ==
    /\ pc = "loop"
    /\ UNCHANGED libvars
    /\ total < limit
    /\ itpos < Len(dupes_by_setsize)
    /\ total + Len(dupes_by_setsize[itpos + 1].members) <= limit
    /\ buffer' = Append(buffer, itpos + 1)
    /\ itpos' = itpos + 1
    /\ UNCHANGED <<dbvars, exists, path_cache, pc, limit, dupes_by_setsize, total,
                   taggings, tagging_queue, untagging_queue, invoked, outcome,
                   call, ret>>

\* lines 424-428, `if` branch: the batch is invoked and the next group starts
\* a new one
Flush ==
    /\ pc = "loop"
    /\ UNCHANGED libvars
    /\ total < limit
    /\ itpos < Len(dupes_by_setsize)
    /\ total + Len(dupes_by_setsize[itpos + 1].members) > limit
    /\ \E ex2 \in ActionOutcomes(BatchFiles(dupes_by_setsize, buffer), exists) :
          LET r == invoke(buffer, ex2, dupes_by_setsize, file, taggings,
                          tagging_queue, untagging_queue)
          IN  /\ exists' = ex2
              /\ invoked' = Append(invoked, buffer)
              /\ tagging_queue' = r.tq
              /\ untagging_queue' = r.uq
              /\ IF r.err
                 THEN /\ pc' = "failed"
                      /\ outcome' = "KeyError"
                      /\ UNCHANGED buffer
                 ELSE /\ buffer' = <<itpos + 1>>
                      /\ UNCHANGED <<pc, outcome>>
    /\ itpos' = itpos + 1
    /\ UNCHANGED <<dbvars, path_cache, limit, dupes_by_setsize, total, taggings,
                   call, ret>>

\* the end of the pass with apply_queued_taggings() reached: every queued
\* fingerprint's taggings go to the last member still on disk, and the tag
\* records of the untagging queue are deleted
EndOfPassApplying ==
    LET members(h) ==
            SelectSeq(dupes_by_setsize[CHOOSE j \in DOMAIN dupes_by_setsize :
                                          dupes_by_setsize[j].hash = h].members,
                      LAMBDA m : m \in exists')
        queued == DOMAIN tagging_queue'
    IN  IF \E h \in queued : members(h) = <<>>
        THEN /\ pc' = "failed"
             /\ outcome' = "ValueError"
             /\ UNCHANGED dbvars
        ELSE /\ pc' = "exited"
             /\ outcome' = "returned"
             /\ file_tag' =
                   (file_tag \cup
                    UNION {{<<file_id(file, members(h)[Len(members(h))]), t>> :
                               t \in tagging_queue'[h]} : h \in queued})
                   \ {<<file_id(file, m), t>> : m \in untagging_queue', t \in Taggings}
             /\ UNCHANGED <<file, setting>>

\* the end of the pass with the tag records of the untagging queue deleted
\* and nothing applied
EndOfPassUntagging ==
    /\ pc' = "exited"
    /\ outcome' = "SystemExit(0)"
    /\ file_tag' = file_tag \ {<<file_id(file, m), t>> : m \in untagging_queue', t \in Taggings}
    /\ UNCHANGED <<file, setting>>

\* lines 435-442: the messages, then sys.exit(0), which comes before the call
\* of apply_queued_taggings(): the catalog is left as it is
EndOfPass ==
    /\ pc' = "exited"
    /\ outcome' = "SystemExit(0)"
    /\ UNCHANGED dbvars

\* lines 425, 432-442: next(it) raises StopIteration, the last batch is invoked
Exhausted ==
    /\ pc = "loop"
    /\ UNCHANGED libvars
    /\ total < limit
    /\ itpos = Len(dupes_by_setsize)
    /\ \E ex2 \in ActionOutcomes(BatchFiles(dupes_by_setsize, buffer), exists) :
          LET r == invoke(buffer, ex2, dupes_by_setsize, file, taggings,
                          tagging_queue, untagging_queue)
          IN  /\ exists' = ex2
              /\ invoked' = Append(invoked, buffer)
              /\ tagging_queue' = r.tq
              /\ untagging_queue' = r.uq
              /\ IF r.err
                 THEN /\ pc' = "failed"
                      /\ outcome' = "KeyError"
                      /\ UNCHANGED dbvars
                 ELSE EndOfPass
    /\ UNCHANGED <<path_cache, limit, dupes_by_setsize, itpos, buffer, total,
                   taggings, call, ret>>

\* lines 424, 435-442: `while total < limit` is false, nothing is invoked
LimitReached ==
    /\ pc = "loop"
    /\ UNCHANGED libvars
    /\ total >= limit
    /\ UNCHANGED <<exists, path_cache, limit, dupes_by_setsize, itpos, buffer,
                   total, taggings, tagging_queue, untagging_queue, invoked,
                   call, ret>>
    /\ EndOfPass

(***************************************************************************)
(* The catalogs and disks a pass is started on.                            *)
(***************************************************************************)
\* the taggings of the rows 1, 2, 3 (and again of 4, 5, 6, ...)
TagPatterns == { <<{"t1"}, {"t1", "t2"}, {}>>,
                 <<{}, {"t1"}, {"t1", "t2"}>>,
                 <<{"t2"}, {"t1"}, {"t1"}>>,
                 <<{}, {}, {}>> }

\* rows in rowid order: nF rows with fingerprint "F", then "G", "H", and n0
\* rows whose fingerprint was never computed (e)
Catalog(nF, nG, nH, n0, e) ==
    LET fps == Repeat("F", nF) \o Repeat("G", nG) \o Repeat("H", nH) \o Repeat(e, n0)
    IN  [k \in DOMAIN fps |->
            [id |-> 100 + k, path |-> k, fingerprint |-> fps[k], size |-> k]]

\* no tag or alias is defined and no subcommand is registered
InitLibrary ==
    /\ tag = {}
    /\ alias = {}
    /\ alias_tag = {}
    /\ _registry = <<>>

InitPass ==
    /\ pc = "idle"
    /\ limit = 0
    /\ dupes_by_setsize = <<>>
    /\ itpos = 0
    /\ buffer = <<>>
    /\ total = 0
    /\ taggings = <<>>
    /\ tagging_queue = <<>>
    /\ untagging_queue = {}
    /\ invoked = <<>>
    /\ outcome = "none"
    /\ path_cache = <<>>

Init ==
    /\ InitPass
    /\ InitLibrary
    /\ call = [op |-> "none"]
    /\ ret = <<>>
    /\ setting = <<>>
    /\ \E nF \in 0..MaxGroup, nG \in 0..MaxGroup, nH \in {0, 2},
          null \in {<<0, "">>, <<2, "">>, <<2, None>>} :
          /\ file = Catalog(nF, nG, nH, null[1], null[2])
          /\ \E pat \in TagPatterns :
                file_tag = UNION {{<<file[k].id, t>> : t \in pat[((k - 1) % 3) + 1]} :
                                     k \in DOMAIN file}
          /\ \E missing \in {{}, {1}} : exists = {file[k].path : k \in DOMAIN file} \ missing

Next ==
    \/ \E lim \in 1..MaxLimit : Collect(lim)
    \/ Accumulate
    \/ Flush
    \/ Exhausted
    \/ LimitReached

Spec == Init /\ [][Next]_vars

(***************************************************************************)
(* rank_duplicates called again and again in one process, while files are  *)
(* created and removed.  path_cache is the dict that is the default value  *)
(* of value_of_duplicate's parameter: it is made once, when the function   *)
(* is defined, and sorted() never passes another.                          *)
(***************************************************************************)
RankedPaths == 1..6

\* one call of rank_duplicates(dupes)
RankDuplicates ==
    /\ call.op = "rank_duplicates"
    /\ UNCHANGED libvars
    /\ ret = <<>>
    /\ ret' = <<rank_duplicates(call.dupes, path_cache, exists)>>
    /\ path_cache' = CacheAfter(path_cache,
                                UNION {Range(call.dupes[j].members) : j \in DOMAIN call.dupes},
                                exists)
    /\ UNCHANGED <<dbvars, exists, passvars, outcome, call>>

\* after a call has returned and before the next one, a file is created or
\* removed
DiskChange(p) ==
    /\ call.op = "rank_duplicates"
    /\ UNCHANGED libvars
    /\ path_cache # <<>>
    /\ exists' = IF p \in exists THEN exists \ {p} ELSE exists \cup {p}
    /\ ret' = <<>>
    /\ UNCHANGED <<dbvars, path_cache, passvars, outcome, call>>

InitCache ==
    /\ InitPass
    /\ InitLibrary
    /\ file = <<>>
    /\ file_tag = {}
    /\ setting = <<>>
    /\ ret = <<>>
    /\ exists \in SUBSET RankedPaths
    /\ \E dupes \in {<<[hash |-> "F", members |-> <<1, 2>>]>>,
                     <<[hash |-> "F", members |-> <<1, 5>>],
                       [hash |-> "G", members |-> <<3, 4>>]>>} :
          call = [op |-> "rank_duplicates", dupes |-> dupes]

NextCache ==
    \/ RankDuplicates
    \/ \E p \in RankedPaths : DiskChange(p)

SpecCache == InitCache /\ [][NextCache]_vars

(***************************************************************************)
(* main with the dupes subcommand and --command.                           *)
(***************************************************************************)
DefaultLimit == 300     \* parser.set_defaults(limit=300)
StdinLimit == 65535     \* args.limit = 0xffff

\* what parse_args returns for "dupes --command ..." with or without
\* --single and --stdin
parse_args(single, stdin) ==
    [cmd |-> "dupes", single |-> single, stdin |-> stdin,
     limit |-> IF stdin THEN StdinLimit ELSE DefaultLimit,
     minimum |-> DefaultMinimum]

\* main, lines 538-550: the pass is called with args.command, args.limit and
\* args.minimum; args.single is not read
MainDupes ==
    /\ call.op = "main"
    /\ call.args.cmd = "dupes"
    /\ Collect(call.args.limit)

\* the namespaces of parse_args, and the same with the smaller limits
InitMain ==
    /\ InitPass
    /\ InitLibrary
    /\ ret = <<>>
    /\ setting = <<>>
    /\ \E single, stdin \in BOOLEAN, lim \in (1..MaxLimit) \cup {0} :
          call = [op |-> "main",
                  args |-> IF lim = 0 THEN parse_args(single, stdin)
                           ELSE [parse_args(single, stdin) EXCEPT !.limit = lim]]
    /\ \E nF \in 0..MaxGroup, nG \in 0..MaxGroup :
          /\ file = Catalog(nF, nG, 2, 0, "")
          /\ \E pat \in {<<{"t1"}, {"t1", "t2"}, {}>>, <<{}, {}, {}>>} :
                file_tag = UNION {{<<file[k].id, t>> : t \in pat[((k - 1) % 3) + 1]} :
                                     k \in DOMAIN file}
          /\ exists = {file[k].path : k \in DOMAIN file}

NextMain ==
    \/ MainDupes
    \/ Accumulate
    \/ Flush
    \/ Exhausted
    \/ LimitReached

SpecMain == InitMain /\ [][NextMain]_vars

(***************************************************************************)
(* Pure functions: `call` holds the arguments, the action applies the      *)
(* function and leaves its result in `ret`.                                *)
(***************************************************************************)
InitNoCatalog ==
    /\ InitPass
    /\ InitLibrary
    /\ file = <<>>
    /\ file_tag = {}
    /\ setting = <<>>
    /\ exists = {}

Apply(op, result) ==
    /\ call.op = op
    /\ UNCHANGED libvars
    /\ ret = <<>>
    /\ ret' = <<result>>
    /\ UNCHANGED <<dbvars, exists, path_cache, passvars, outcome, call>>

\* ---- value_of_duplicate on a path whose directory has nfiles files
SiblingCounts == {0, 5, 10, 30, 200}

RankNames ==
    {Repeat("a", n) : n \in 0..MaxWord}
        \cup {Repeat("a", n) \o <<".", "j", "p", "g">> : n \in 1..MaxWord}
        \cup {<<"A">> \o Repeat("b", n) : n \in 0..MaxWord}

InitRank ==
    /\ InitNoCatalog
    /\ ret = <<>>
    /\ \E d \in {<<"x">>, <<"p", "i", "c", "s">>}, nm \in RankNames, c \in SiblingCounts :
          call = [op |-> "value_of_duplicate", path |-> [dir |-> d, name |-> nm],
                  nfiles |-> c]

ValueOfDuplicate == Apply("value_of_duplicate", ValueOf(call.path, call.nfiles))

SpecRank == InitRank /\ [][ValueOfDuplicate]_vars

\* ---- _filecount_multiplier on every sibling count up to MaxCount
\* ---- _filename_descriptiveness on file names of two tokens and a separator,
\* and on the examples of the comment of repair.py lines 80-87
WordTokens ==
    {<<>>, <<"f", "o", "o">>, <<"b", "a", "r">>, <<"b", "b", "f">>, <<"a", "b">>,
     <<"0", "9">>, <<"B", "a", "r">>, <<"f", "o", "o", "b", "a", "r">>}

WordSeps == {<<>>, <<",">>, <<" ">>, <<"_">>, <<".">>}

HexExample ==
    <<"1", "d", "0", "f", "3", "f", "e", "4", "5", "3", "5", "0", "f", "0", "9",
      "b", "b", "f", "0", "4", "5", "3", ",", "f", "o", "o", ",", "b", "a", "r">>

DescriptiveNames ==
    {t1 \o sep \o t2 : t1 \in WordTokens, sep \in WordSeps, t2 \in WordTokens}
        \cup {HexExample, HexExample \o <<".", "j", "p", "g">>,
              <<"c", "e", "r", "e", "a", "l", " ", "b", "a", "r">>}

InitDescriptive ==
    /\ InitNoCatalog
    /\ ret = <<>>
    /\ \E nm \in DescriptiveNames :
          call = [op |-> "_filename_descriptiveness", filename |-> nm]

FilenameDescriptiveness ==
    Apply("_filename_descriptiveness", _filename_descriptiveness(call.filename))

SpecDescriptive == InitDescriptive /\ [][FilenameDescriptiveness]_vars

InitMultiplier ==
    /\ InitNoCatalog
    /\ ret = <<>>
    /\ \E c \in 0..MaxCount : call = [op |-> "_filecount_multiplier", c |-> c]

FilecountMultiplier == Apply("_filecount_multiplier", _filecount_multiplier(call.c))

SpecMultiplier == InitMultiplier /\ [][FilecountMultiplier]_vars

(***************************************************************************)
(* The Fingerprint Engine.  A file's content is [size, marks]: size bytes, *)
(* zero except at the offsets in marks.  A digest is ideal: it is the pair *)
(* of the digest function and everything that was fed to it.               *)
(***************************************************************************)
SPARSE_FINGERPRINT_THRESHOLD == 5 * 1024 * 1024
SPARSE_FINGERPRINT_SIZE == 512 * 1024
ReadChunk == 65535      \* the 0xffff of fullhash
DEFAULT_ALGORITHM == "dynamic:SHA256"
CONFIG_KEY == "fingerprintAlgorithm"

NoData == [size |-> 0, marks |-> {}]

\* f.read(n) at offset pos
ReadAt(content, pos, n) ==
    LET k == Max(0, Min(n, content.size - pos))
    IN  [size |-> k,
         marks |-> {b - pos : b \in {b \in content.marks : pos <= b /\ b < pos + k}}]

\* hasher.update(chunk)
Update(data, chunk) ==
    [size |-> data.size + chunk.size,
     marks |-> data.marks \cup {b + data.size : b \in chunk.marks}]

\* the values fingerprint produces: None, a string, a raised exception
NoneValue == [type |-> "NoneType"]
Str(chars) == [type |-> "str", chars |-> chars]
Raised(exc) == [type |-> exc]

\* hasher.hexdigest(), a string
HexDigest(hasher, data) == [type |-> "str", digest |-> hasher, of |-> data]

\* The read loop of fullhash: chunks of ReadChunk bytes are read and fed in
\* order until a read returns nothing.  FedChunks is what chunks lo..hi-1
\* feed; the halving only bounds the depth of the recursion.
RECURSIVE FedChunks(_, _, _)
FedChunks(content, lo, hi) ==
    IF hi <= lo THEN NoData
    ELSE IF hi = lo + 1 THEN ReadAt(content, lo * ReadChunk, ReadChunk)
    ELSE LET mid == (lo + hi) \div 2
         IN  Update(FedChunks(content, lo, mid), FedChunks(content, mid, hi))

\* the number of reads that return data
NumReads(content) == (content.size + ReadChunk - 1) \div ReadChunk

fullhash(content, hasher) ==
    HexDigest(hasher, FedChunks(content, 0, NumReads(content)))

\* sparsehash with the window size where the threshold belongs
sparsehash_small_threshold(content, hasher) ==
    IF content.size < SPARSE_FINGERPRINT_SIZE
    THEN fullhash(content, hasher)
    ELSE NoneValue

\* From the threshold on the function feeds the first window to the hasher,
\* seeks to size - SPARSE_FINGERPRINT_SIZE and ends there: nothing is
\* returned, which is None in Python.
sparsehash(content, hasher) ==
    IF content.size < SPARSE_FINGERPRINT_THRESHOLD
    THEN fullhash(content, hasher)
    ELSE NoneValue

\* fp_symlink_targetname: a live path is [kind, name, target, content]
fp_symlink_targetname(live) ==
    Str(IF live.kind = "link" THEN live.target ELSE live.name)

fp_symlink_targetname_noext(live) == Str(SplitextRoot(fp_symlink_targetname(live).chars))

AlgorithmNames == {"dynamic:SHA256", "dynamic:SHA1", "dynamic:MD5", "sha256", "sha1",
                   "md5", "symlinkTargetName", "symlinkTargetNameNoExt"}

\* fingerprinters[algorithm](path)
Fingerprinter(algorithm, live) ==
    CASE algorithm = "dynamic:SHA256" -> sparsehash(live.content, "sha256")
      [] algorithm = "dynamic:SHA1" -> sparsehash(live.content, "sha1")
      [] algorithm = "dynamic:MD5" -> sparsehash(live.content, "md5")
      [] algorithm = "sha256" -> fullhash(live.content, "sha256")
      [] algorithm = "sha1" -> fullhash(live.content, "sha1")
      [] algorithm = "md5" -> fullhash(live.content, "md5")
      [] algorithm = "symlinkTargetName" -> fp_symlink_targetname(live)
      [] algorithm = "symlinkTargetNameNoExt" -> fp_symlink_targetname_noext(live)

\* fingerprint(path, algorithm)
fingerprint(live, algorithm) ==
    LET algo == IF Truthy(algorithm) THEN algorithm ELSE DEFAULT_ALGORITHM
    IN  IF algo \notin AlgorithmNames THEN Raised("ValueError")
        ELSE IF live.kind \in {"absent", "dir"} THEN NoneValue
        ELSE Fingerprinter(algo, live)

\* ---- the calls of fingerprint that are checked
HashSizes == {0, 1, ReadChunk, ReadChunk + 1,
              SPARSE_FINGERPRINT_THRESHOLD - 1, SPARSE_FINGERPRINT_THRESHOLD,
              SPARSE_FINGERPRINT_THRESHOLD + 1, 2 * SPARSE_FINGERPRINT_THRESHOLD}

\* the offsets at which a non-zero byte is tried in a file of n bytes
MarkOffsets(n) ==
    {0, ReadChunk - 1, ReadChunk, SPARSE_FINGERPRINT_SIZE - 1, SPARSE_FINGERPRINT_SIZE,
     n - SPARSE_FINGERPRINT_SIZE - 1, n - SPARSE_FINGERPRINT_SIZE, n - 1}
        \cap 0..(n - 1)

Contents ==
    UNION {{[size |-> n, marks |-> ms] :
               ms \in {ms \in SUBSET MarkOffsets(n) : Cardinality(ms) <= MaxMarks}} :
           n \in HashSizes}

LivePaths ==
    {[kind |-> k, name |-> <<"a", ".", "j", "p", "g">>, target |-> <<>>, content |-> NoData] :
        k \in {"absent", "dir"}}
      \cup {[kind |-> "file", name |-> <<"a", ".", "j", "p", "g">>, target |-> <<>>,
             content |-> c] : c \in Contents}
      \cup {[kind |-> "link", name |-> <<"a">>, target |-> <<"b", ".", "p", "n", "g">>,
             content |-> c] : c \in {c \in Contents : c.marks = {}}}

InitHash ==
    /\ InitNoCatalog
    /\ ret = <<>>
    /\ \E a \in AlgorithmNames \cup {None, "", "crc32", "SHA256"}, live \in LivePaths :
          call = [op |-> "fingerprint", algorithm |-> a, live |-> live]

Fingerprint == Apply("fingerprint", fingerprint(call.live, call.algorithm))

SpecHash == InitHash /\ [][Fingerprint]_vars

(***************************************************************************)
(* Modification times and the consistency scanner.  What os.stat and the   *)
(* link tests say of a path is a record [kind, size, sec, nsec]: kind is   *)
(* "absent", "broken" (a link to nothing), "file", "dir" or "link" (a link *)
(* to a regular file); sec and nsec are the mtime's seconds within the     *)
(* minute and its nanoseconds.                                             *)
(***************************************************************************)
DigitChar(d) == <<"0", "1", "2", "3", "4", "5", "6", "7", "8", "9">>[d + 1]

\* str(n) for n >= 0
RECURSIVE Digits(_)
Digits(n) == IF n < 10 THEN <<DigitChar(n)>> ELSE Digits(n \div 10) \o <<DigitChar(n % 10)>>

\* while nano[-1] == '0': nano = nano[:-1]
RECURSIVE StripZeros(_)
StripZeros(nano) ==
    IF nano[Len(nano)] = "0" THEN StripZeros(Slice(nano, 0, -1)) ELSE nano

\* strftime('%Y-%m-%d %H:%M:%S') of an instant in the first minute of 2020
StrfSeconds(sec) ==
    <<"2", "0", "2", "0", "-", "0", "1", "-", "0", "1", " ", "0", "0", ":", "0", "0", ":">>
        \o <<DigitChar(sec \div 10), DigitChar(sec % 10)>>

file_mtime(st) ==
    LET nano == st.nsec % 1000000000
    IN  StrfSeconds(st.sec) \o (IF nano > 0 THEN <<".">> \o StripZeros(Digits(nano)) ELSE <<>>)

NoChanges ==
    [modified |-> <<>>, broken |-> <<>>, deleted |-> <<>>, type |-> <<>>,
     badmtime |-> <<>>, linkres |-> <<>>]

\* CompareMtime without the assignment omtime = mtime of line 283
CompareMtimeKeepRecorded(a1, row, mtime) ==
    LET p == row.path
        opos == Find(row.mod_time, ".")
        pos == Find(mtime, ".")
        trunc_eq == Slice(row.mod_time, 0, opos) = Slice(mtime, 0, pos)
        bad == trunc_eq /\ ~(row.mod_time = mtime)
        a2 == IF bad THEN [a1 EXCEPT !.badmtime = Append(@, p)] ELSE a1
    IN  IF row.mod_time # mtime THEN [a2 EXCEPT !.modified = Append(@, p)] ELSE a2

\* lines 276-286 of changed_paths: the recorded mtime of row against the
\* mtime just read
CompareMtime(a1, row, mtime) ==
    LET p == row.path
        opos == Find(row.mod_time, ".")
        pos == Find(mtime, ".")
        trunc_eq == Slice(row.mod_time, 0, opos) = Slice(mtime, 0, pos)
        bad == trunc_eq /\ ~(row.mod_time = mtime)
        a2 == IF bad THEN [a1 EXCEPT !.badmtime = Append(@, p)] ELSE a1
        omtime == IF bad THEN mtime ELSE row.mod_time
    IN  IF omtime # mtime THEN [a2 EXCEPT !.modified = Append(@, p)] ELSE a2

\* the body of the loop of changed_paths for one row; acc is the six lists
ScanRow(acc, row, live) ==
    LET p == row.path
        islink == live.kind \in {"broken", "link"}
        pexists == live.kind \in {"file", "dir", "link"}
        a1 == IF live.kind = "link" THEN [acc EXCEPT !.linkres = Append(@, p)] ELSE acc
        a3 == CompareMtime(a1, row, file_mtime(live))
        isdir == row.is_dir # 0
    IN  IF islink /\ ~pexists THEN [acc EXCEPT !.broken = Append(@, p)]
        ELSE IF ~pexists THEN [acc EXCEPT !.deleted = Append(@, p)]
        ELSE IF isdir # (live.kind = "dir") THEN [a3 EXCEPT !.type = Append(@, p)]
        ELSE a3

RECURSIVE ScanRows(_, _, _, _)
ScanRows(acc, rows, fs, k) ==
    IF k > Len(rows) THEN acc
    ELSE ScanRows(ScanRow(acc, rows[k], fs[rows[k].path]), rows, fs, k + 1)

changed_paths(rows, fs) == ScanRows(NoChanges, rows, fs, 1)

\* ---- the calls of changed_paths that are checked
ScanSeconds == {18, 19}
ScanNanos == {0, 500000000, 250000000, 5000000}
ScanStats == {[sec |-> sc, nsec |-> n] : sc \in ScanSeconds, n \in ScanNanos}

ScanLives ==
    {[kind |-> k, size |-> 0, sec |-> 18, nsec |-> 0] : k \in {"absent", "broken"}}
      \cup {[kind |-> k, size |-> 7, sec |-> st.sec, nsec |-> st.nsec] :
               k \in {"file", "dir", "link"}, st \in ScanStats}

\* a second row, of a path that is gone
GoneRow == [path |-> 2, mod_time |-> StrfSeconds(18), is_dir |-> 0]

InitScan ==
    /\ InitNoCatalog
    /\ ret = <<>>
    /\ \E st \in ScanStats, d \in {0, 1}, live \in ScanLives, more \in BOOLEAN :
          LET row == [path |-> 1, mod_time |-> file_mtime(st), is_dir |-> d]
              gone == [kind |-> "absent", size |-> 0, sec |-> 18, nsec |-> 0]
          IN  call = [op |-> "changed_paths",
                      rows |-> IF more THEN <<GoneRow, row>> ELSE <<row>>,
                      fs |-> <<live, gone>>]

ChangedPaths == Apply("changed_paths", changed_paths(call.rows, call.fs))

SpecScan == InitScan /\ [][ChangedPaths]_vars

\* ---- the calls of file_mtime that are checked: a regular file whose mtime
\* is sec seconds and nsec nanoseconds into the first minute of 2020
MtimeNanos == {0, 1, 10, 5, 50, 5000000, 50000000, 500000000, 120000000,
               12000000, 100000000, 123456789, 999999999, 999999990}

InitMtime ==
    /\ InitNoCatalog
    /\ ret = <<>>
    /\ \E sc \in 0..59, n \in MtimeNanos :
          call = [op |-> "file_mtime",
                  st |-> [kind |-> "file", size |-> 7, sec |-> sc, nsec |-> n]]

FileMtime == Apply("file_mtime", file_mtime(call.st))

SpecMtime == InitMtime /\ [][FileMtime]_vars

(***************************************************************************)
(* The settings and change_fingerprint_algorithm.                          *)
(***************************************************************************)
\* get_config(cursor, key, default)
get_config(st, key, default) == IF key \in DOMAIN st THEN st[key] ELSE default

get_fingerprint_algorithm(st) == get_config(st, CONFIG_KEY, DEFAULT_ALGORITHM)

\* set_fingerprint_algorithm has a docstring and no statement: it changes no
\* setting and raises nothing, whatever algo is
set_fingerprint_algorithm(st, algo) == [setting |-> st, exc |-> None]

\* change_fingerprint_algorithm: the rollback of the except branch undoes
\* nothing that was written; then every size is set to -1
ChangeFingerprintAlgorithm(algorithm) ==
    /\ pc = "idle"
    /\ UNCHANGED libvars
    /\ LET r == set_fingerprint_algorithm(setting, algorithm)
       IN  setting' = IF r.exc = "ValueError" THEN setting ELSE r.setting
    /\ file' = [k \in DOMAIN file |-> [file[k] EXCEPT !.size = -1]]
    /\ call' = [op |-> "change_fingerprint_algorithm", algorithm |-> algorithm]
    /\ outcome' = "returned"
    /\ UNCHANGED <<file_tag, exists, path_cache, passvars, ret>>

\* what is on disk at the paths of the catalogs below
StatOf(p) ==
    [kind |-> IF p = 3 THEN "dir" ELSE "file", size |-> 10 * p, sec |-> 18,
     nsec |-> IF p = 2 THEN 500000000 ELSE 0]

\* invalidated_paths, as the list of what it yields; ex is the set of paths
\* that exist
RECURSIVE invalidated_paths(_, _, _)
invalidated_paths(f, ex, k) ==
    IF k > Len(f) THEN <<>>
    ELSE LET p == f[k].path
             st == StatOf(p)
             realsize == IF st.kind = "dir" THEN 0 ELSE st.size
             rest == invalidated_paths(f, ex, k + 1)
         IN  IF p \notin ex THEN rest
             ELSE IF realsize # f[k].size THEN <<p>> \o rest
             ELSE IF file_mtime(st) # f[k].mod_time THEN <<p>> \o rest
             ELSE rest

\* three rows, each with an invalidated, a true or a stale size, and with
\* a stale mtime for the paths in stale
ScannedCatalog(sizes, stale) ==
    [k \in 1..3 |->
        [id |-> 100 + k, path |-> k, fingerprint |-> "F",
         size |-> CASE sizes[k] = "invalid" -> -1
                    [] sizes[k] = "stale" -> 10 * k + 1
                    [] OTHER -> IF k = 3 THEN 0 ELSE 10 * k,
         mod_time |-> IF k \in stale THEN StrfSeconds(18) ELSE file_mtime(StatOf(k)),
         is_dir |-> IF k = 3 THEN 1 ELSE 0]]

InitConfig ==
    /\ InitPass
    /\ InitLibrary
    /\ file_tag = {}
    /\ call = [op |-> "none"]
    /\ ret = <<>>
    /\ \E sizes \in [1..3 -> {"invalid", "real", "stale"}], stale \in SUBSET {2} :
          file = ScannedCatalog(sizes, stale)
    /\ exists \in {{}, {1}, {1, 2}, {1, 2, 3}}
    /\ \/ setting = <<>>
       \/ \E a \in AlgorithmNames : setting = [key \in {CONFIG_KEY} |-> a]

\* names that are no key of fingerprinters
UnknownNames == {"crc32", "SHA256"}

NextConfig ==
    \E a \in AlgorithmNames \cup UnknownNames : ChangeFingerprintAlgorithm(a)

SpecConfig == InitConfig /\ [][NextConfig]_vars

(***************************************************************************)
(* invalidated_paths and changed_paths row by row, one system call (or run *)
(* of calls that cannot raise) per step, while another process removes     *)
(* catalogued paths.  itpos is the row being scanned and ret[1] what has   *)
(* been yielded or listed so far.                                          *)
(***************************************************************************)
ScannedRowNow == file[itpos]

\* the loop goes to the next row, or ends and the function returns
NextRow(first) ==
    /\ itpos' = itpos + 1
    /\ IF itpos + 1 > Len(file)
       THEN pc' = "done" /\ outcome' = "returned"
       ELSE pc' = first /\ UNCHANGED outcome

ScanFrame ==
    UNCHANGED <<dbvars, exists, path_cache, limit, dupes_by_setsize, buffer, total,
                taggings, tagging_queue, untagging_queue, invoked, call, libvars>>

\* an exception leaves the function
ScanRaises(exc) ==
    /\ pc' = "failed"
    /\ outcome' = exc
    /\ UNCHANGED <<itpos, ret>>

\* invalidated_paths lines 44-50: isdir and getsize inside the try, then the
\* comparison of sizes
InvalidatedSize ==
    /\ pc = "inv_size"
    /\ LET row == ScannedRowNow
           st == StatOf(row.path)
           realsize == IF st.kind = "dir" THEN 0 ELSE st.size
       IN  IF row.path \notin exists
           THEN NextRow("inv_size") /\ UNCHANGED ret
           ELSE IF realsize # row.size
           THEN NextRow("inv_size") /\ ret' = <<Append(ret[1], row.path)>>
           ELSE pc' = "inv_mtime" /\ UNCHANGED <<itpos, outcome, ret>>
    /\ ScanFrame

\* invalidated_paths lines 51-53: file_mtime calls os.stat outside any try
InvalidatedMtime ==
    /\ pc = "inv_mtime"
    /\ LET row == ScannedRowNow
       IN  IF row.path \notin exists
           THEN ScanRaises("FileNotFoundError")
           ELSE /\ NextRow("inv_size")
                /\ ret' = IF file_mtime(StatOf(row.path)) # row.mod_time
                          THEN <<Append(ret[1], row.path)>>
                          ELSE ret
    /\ ScanFrame

\* changed_paths lines 265-272: the tests of islink and exists (no path of
\* these catalogs is a link)
ChangedExists ==
    /\ pc = "chg_exists"
    /\ IF ScannedRowNow.path \notin exists
       THEN /\ NextRow("chg_exists")
            /\ ret' = <<[ret[1] EXCEPT !.deleted = Append(@, ScannedRowNow.path)]>>
       ELSE pc' = "chg_mtime" /\ UNCHANGED <<itpos, outcome, ret>>
    /\ ScanFrame

\* changed_paths lines 274-286: file_mtime calls os.stat outside any try
ChangedMtime ==
    /\ pc = "chg_mtime"
    /\ IF ScannedRowNow.path \notin exists
       THEN ScanRaises("FileNotFoundError")
       ELSE /\ pc' = "chg_kind"
            /\ ret' = <<CompareMtime(ret[1], ScannedRowNow,
                                     file_mtime(StatOf(ScannedRowNow.path)))>>
            /\ UNCHANGED <<itpos, outcome>>
    /\ ScanFrame

\* changed_paths lines 287-289: os.path.isdir is False for a path that is gone
ChangedKind ==
    /\ pc = "chg_kind"
    /\ LET row == ScannedRowNow
           nowdir == row.path \in exists /\ StatOf(row.path).kind = "dir"
       IN  ret' = IF (row.is_dir # 0) # nowdir
                  THEN <<[ret[1] EXCEPT !.type = Append(@, row.path)]>>
                  ELSE ret
    /\ NextRow("chg_exists")
    /\ ScanFrame

\* another process removes a path while the scan is under way
Vanish(p) ==
    /\ pc \in {"inv_size", "inv_mtime", "chg_exists", "chg_mtime", "chg_kind"}
    /\ UNCHANGED libvars
    /\ p \in exists
    /\ exists' = exists \ {p}
    /\ UNCHANGED <<dbvars, path_cache, passvars, outcome, call, ret>>

InitRace ==
    /\ InitLibrary
    /\ file_tag = {}
    /\ setting = <<>>
    /\ path_cache = <<>>
    /\ limit = 0
    /\ dupes_by_setsize = <<>>
    /\ buffer = <<>>
    /\ total = 0
    /\ taggings = <<>>
    /\ tagging_queue = <<>>
    /\ untagging_queue = {}
    /\ invoked = <<>>
    /\ outcome = "running"
    /\ itpos = 1
    /\ \E sizes \in [1..3 -> {"invalid", "real", "stale"}], stale \in SUBSET {2} :
          file = ScannedCatalog(sizes, stale)
    /\ exists \in {{1}, {1, 2}, {1, 2, 3}}
    /\ \/ call = [op |-> "invalidated_paths"] /\ pc = "inv_size" /\ ret = <<<<>>>>
       \/ call = [op |-> "changed_paths"] /\ pc = "chg_exists" /\ ret = <<NoChanges>>

NextRace ==
    \/ InvalidatedSize
    \/ InvalidatedMtime
    \/ ChangedExists
    \/ ChangedMtime
    \/ ChangedKind
    \/ \E p \in 1..3 : Vanish(p)

SpecRace == InitRace /\ [][NextRace]_vars

(***************************************************************************)
(* repair_path.  The rows of these catalogs are [id, path, fingerprint,    *)
(* is_dir]; a path stands for its (directory, name) pair.                  *)
(***************************************************************************)
RepairPaths == 1..4

\* os.path.isdir of the paths of these catalogs
IsDirOnDisk(p) == p = 4

\* the catalog with the row of oldpath re-pointed to newpath
Repointed(f, oldpath, newpath) ==
    [k \in DOMAIN f |->
        IF f[k].path = oldpath THEN [f[k] EXCEPT !.path = newpath] ELSE f[k]]

\* the row is re-pointed without any of the tests of repair_path
repair_path_unguarded(f, ex, oldpath, newpath, ignore_fingerprint) ==
    [exc |-> None, file |-> Repointed(f, oldpath, newpath)]

\* repair_path: FileNotFoundError when newpath is not on disk (lines 157-158).
\* Otherwise the SELECT of lines 160-162 is executed; its text joins the two
\* conditions of WHERE with a comma, which sqlite3 refuses with
\* OperationalError (near ",": syntax error) whatever the catalog holds.  No
\* statement after it is reached: not the UPDATE, and not the comparison of
\* fingerprints, which never reads ignore_fingerprint.
repair_path(f, ex, oldpath, newpath, ignore_fingerprint) ==
    IF newpath \notin ex
    THEN [exc |-> "FileNotFoundError", file |-> f]
    ELSE [exc |-> "OperationalError", file |-> f]

RepairPath(oldpath, newpath, ignore_fingerprint) ==
    /\ pc = "idle"
    /\ UNCHANGED libvars
    /\ LET r == repair_path(file, exists, oldpath, newpath, ignore_fingerprint)
       IN  /\ file' = r.file
           /\ outcome' = IF r.exc = None THEN "returned" ELSE r.exc
    /\ call' = [op |-> "repair_path", oldpath |-> oldpath, newpath |-> newpath,
                ignore_fingerprint |-> ignore_fingerprint]
    /\ UNCHANGED <<file_tag, setting, exists, path_cache, passvars, ret>>

InitRepair ==
    /\ InitPass
    /\ InitLibrary
    /\ file_tag = {}
    /\ setting = <<>>
    /\ call = [op |-> "none"]
    /\ ret = <<>>
    /\ exists \in SUBSET RepairPaths
    /\ \E fp \in {"F", "G"}, d \in {0, 1}, second \in {2, 4} :
          file = <<[id |-> 101, path |-> 1, fingerprint |-> fp, is_dir |-> d],
                   [id |-> 102, path |-> second, fingerprint |-> "F",
                    is_dir |-> IF second = 4 THEN 1 ELSE 0]>>

NextRepair ==
    \E oldpath, newpath \in RepairPaths, ignore_fingerprint \in BOOLEAN :
        RepairPath(oldpath, newpath, ignore_fingerprint)

SpecRepair == InitRepair /\ [][NextRepair]_vars

(***************************************************************************)
(* cli_automation: the registry of subcommand executors.  A `subcommands`  *)
(* argument is a record: [type |-> "str", value |-> s] or                  *)
(* [type |-> "list", items |-> <<s1, ...>>].                               *)
(***************************************************************************)
SubcommandNames == {"tag", "Tag", "TAG", "untag", "Untag"}

\* str.lower() on the names of the model
Lower(s) ==
    CASE s \in {"Tag", "TAG"} -> "tag"
      [] s = "Untag" -> "untag"
      [] OTHER -> s

\* lines 38-39 and 60-61: a string stands for the list of that one string
AsList(subcommands) ==
    IF subcommands.type = "str" THEN <<subcommands.value>> ELSE subcommands.items

\* a dict without the key k
Without(d, k) == [x \in DOMAIN d \ {k} |-> d[x]]

\* lines 38-49: the loop header of line 40 reads the name `subcommmands`,
\* which is bound nowhere, so every call raises NameError before the first
\* iteration
register(reg, subcommands, cli_executor) ==
    [registry |-> reg, exc |-> "NameError"]

\* lines 62-67: the loop of unregister from the k-th subcommand on
RECURSIVE UnregisterFrom(_, _, _, _)
UnregisterFrom(reg, subs, k, must_exist) ==
    IF k > Len(subs) THEN [registry |-> reg, exc |-> None]
    ELSE IF Lower(subs[k]) \in DOMAIN reg
    THEN UnregisterFrom(Without(reg, Lower(subs[k])), subs, k + 1, must_exist)
    ELSE IF ~must_exist
    THEN [registry |-> reg, exc |-> "KeyError"]
    ELSE UnregisterFrom(reg, subs, k + 1, must_exist)

unregister(reg, subcommands, must_exist) ==
    UnregisterFrom(reg, AsList(subcommands), 1, must_exist)

RegistryFrame ==
    UNCHANGED <<dbvars, exists, path_cache, passvars, ret, tag, alias, alias_tag>>

Register(subcommands, cli_executor) ==
    /\ LET r == register(_registry, subcommands, cli_executor)
       IN  /\ _registry' = r.registry
           /\ outcome' = IF r.exc = None THEN "returned" ELSE r.exc
    /\ call' = [op |-> "register", subcommands |-> subcommands,
                cli_executor |-> cli_executor]
    /\ RegistryFrame

Unregister(subcommands, must_exist) ==
    /\ LET r == unregister(_registry, subcommands, must_exist)
       IN  /\ _registry' = r.registry
           /\ outcome' = IF r.exc = None THEN "returned" ELSE r.exc
    /\ call' = [op |-> "unregister", subcommands |-> subcommands,
                must_exist |-> must_exist]
    /\ RegistryFrame

\* ---- the calls that are checked: a name, or a list of up to two names
SubcommandArgs ==
    {[type |-> "str", value |-> s] : s \in SubcommandNames}
        \cup {[type |-> "list", items |-> l] :
                 l \in {<<>>} \cup {<<s>> : s \in SubcommandNames}
                           \cup {<<s, t>> : s, t \in SubcommandNames}}

Executors == {"tag_cli", "untag_cli"}

\* the module has just been imported: `_registry = {}` (line 14)
InitRegistry ==
    /\ InitPass
    /\ file = <<>>
    /\ file_tag = {}
    /\ setting = <<>>
    /\ exists = {}
    /\ call = [op |-> "none"]
    /\ ret = <<>>
    /\ tag = {}
    /\ alias = {}
    /\ alias_tag = {}
    /\ _registry = <<>>

NextRegistry ==
    \/ \E subcommands \in SubcommandArgs, cli_executor \in Executors :
          Register(subcommands, cli_executor)
    \/ \E subcommands \in SubcommandArgs, must_exist \in BOOLEAN :
          Unregister(subcommands, must_exist)

SpecRegistry == InitRegistry /\ [][NextRegistry]_vars

(***************************************************************************)
(* Tags: tag.py, and the copies of create_tag and rename in core.py.  The  *)
(* `tag` relation is a set of rows [id, name].                             *)
(***************************************************************************)
MaxTagId == 3

TagNames == {"", "a", "b", "c", "x"}

Ids(t) == {r.id : r \in t}
Names(t) == {r.name : r \in t}

MaxOf(S) == CHOOSE n \in S : \A m \in S : m <= n
MinOf(S) == CHOOSE n \in S : \A m \in S : n <= m

\* the id sqlite gives a row inserted without one into a table whose id is an
\* INTEGER PRIMARY KEY: one more than the highest id in use
NextRowId(t) == IF t = {} THEN 1 ELSE MaxOf(Ids(t)) + 1

\* tag.py lines 42-48, for a table that is not empty (max() of no ids raises)
discontiguous_tag_ids(t) == (1..(MaxOf(Ids(t)) + 1)) \ Ids(t)

\* tag.py lines 51-93.  After the INSERT and the commit, both branches read
\* the id back as fetchone()[0][0]: fetchone()[0] is the id, an int, and the
\* second subscript raises TypeError.
create_tag(t, name, reuse_old) ==
    IF name = "" THEN [tag |-> t, exc |-> "ValueError"]
    ELSE IF name \in Names(t) THEN [tag |-> t, exc |-> "ValueError"]
    ELSE IF reuse_old
    THEN IF t = {} THEN [tag |-> t, exc |-> "ValueError"]
         ELSE [tag |-> t \cup {[id |-> MinOf(discontiguous_tag_ids(t)), name |-> name]},
               exc |-> "TypeError"]
    ELSE [tag |-> t \cup {[id |-> NextRowId(t), name |-> name]}, exc |-> "TypeError"]

\* core.py lines 191-236.  With reuse_old, `used` is a set of rows, not of
\* ids: max(used) is a 1-tuple and maxv+2 raises TypeError before the INSERT.
core_create_tag(t, name, reuse_old) ==
    IF name = "" THEN [tag |-> t, exc |-> "ValueError"]
    ELSE IF name \in Names(t) THEN [tag |-> t, exc |-> "ValueError"]
    ELSE IF reuse_old
    THEN IF t = {} THEN [tag |-> t, exc |-> "ValueError"]
         ELSE [tag |-> t, exc |-> "TypeError"]
    ELSE [tag |-> t \cup {[id |-> NextRowId(t), name |-> name]}, exc |-> "TypeError"]

TagFrame ==
    UNCHANGED <<dbvars, exists, path_cache, passvars, ret, _registry>>

CreateTag(name, reuse_old) ==
    /\ LET r == create_tag(tag, name, reuse_old)
       IN  /\ tag' = r.tag
           /\ outcome' = IF r.exc = None THEN "returned" ELSE r.exc
    /\ call' = [op |-> "tag.create_tag", name |-> name, reuse_old |-> reuse_old]
    /\ UNCHANGED <<alias, alias_tag>>
    /\ TagFrame

CoreCreateTag(name, reuse_old) ==
    /\ LET r == core_create_tag(tag, name, reuse_old)
       IN  /\ tag' = r.tag
           /\ outcome' = IF r.exc = None THEN "returned" ELSE r.exc
    /\ call' = [op |-> "core.create_tag", name |-> name, reuse_old |-> reuse_old]
    /\ UNCHANGED <<alias, alias_tag>>
    /\ TagFrame

\* ---- the tag tables a call is made on: up to two tags with ids up to
\* MaxTagId, as TMSU may have left them
TagTables ==
    {{}} \cup {{[id |-> i, name |-> "a"]} : i \in 1..MaxTagId}
         \cup {{[id |-> ij[1], name |-> "a"], [id |-> ij[2], name |-> "b"]} :
                  ij \in {p \in (1..MaxTagId) \X (1..MaxTagId) : p[1] # p[2]}}

InitTags ==
    /\ InitPass
    /\ file = <<>>
    /\ file_tag = {}
    /\ setting = <<>>
    /\ exists = {}
    /\ call = [op |-> "none"]
    /\ ret = <<>>
    /\ tag \in TagTables
    /\ alias = {}
    /\ alias_tag = {}
    /\ _registry = <<>>

NextTags ==
    \/ \E name \in TagNames, reuse_old \in BOOLEAN : CreateTag(name, reuse_old)
    \/ \E name \in TagNames, reuse_old \in BOOLEAN : CoreCreateTag(name, reuse_old)

SpecTags == InitTags /\ [][NextTags]_vars

(***************************************************************************)
(* cli_automation: automation files.  A file is its text, a sequence of    *)
(* characters, read one character at a time from position pos (1-based).   *)
(***************************************************************************)
MaxFile == 6

FileChars == {"a", "\n", "\f"}

\* the line boundaries of str.splitlines() among the characters of the model
LineBreaks == {"\n", "\f"}

\* str.splitlines(): cur is the line being gathered; a line boundary ends a
\* line, also an empty one, and what follows the last boundary is a line if
\* it is not empty
RECURSIVE SplitlinesFrom(_, _, _)
SplitlinesFrom(text, k, cur) ==
    IF k > Len(text) THEN (IF cur = <<>> THEN <<>> ELSE <<cur>>)
    ELSE IF text[k] \in LineBreaks THEN <<cur>> \o SplitlinesFrom(text, k + 1, <<>>)
    ELSE SplitlinesFrom(text, k + 1, Append(cur, text[k]))

Splitlines(text) == SplitlinesFrom(text, 1, <<>>)

\* lines 112-126: the loop of read_args with `text` read so far
RECURSIVE ReadLoop(_, _, _)
ReadLoop(content, pos, text) ==
    IF pos > Len(content)
    THEN [args |-> Splitlines(text), eof |-> TRUE, pos |-> pos]
    ELSE IF content[pos] = "\n" /\ (text = <<>> \/ text[Len(text)] = "\n")
    THEN [args |-> Splitlines(text), eof |-> FALSE, pos |-> pos + 1]
    ELSE ReadLoop(content, pos + 1, Append(text, content[pos]))

\* lines 83-127, reading the file that the global name `f` is bound to
read_args(content, pos) == ReadLoop(content, pos, <<>>)

\* lines 197-203: the loop of parse_file
RECURSIVE ParseLoop(_, _, _, _)
ParseLoop(content, pos, shared_args, yielded) ==
    LET r == read_args(content, pos)
        y == IF r.args # <<>> THEN Append(yielded, <<shared_args, r.args>>) ELSE yielded
    IN  IF r.eof THEN [yielded |-> y, exc |-> None]
        ELSE ParseLoop(content, r.pos, shared_args, y)

\* lines 130-203, iterated to its end.  read_args has the parameter `file`
\* and reads from `f`: that name is bound, to the very file parse_file was
\* given, only when cli_automation.py runs as a script (lines 238-264);
\* in an importing program the first read raises NameError.  The bare
\* `raise` of line 195 has no exception to re-raise and raises RuntimeError.
parse_file(content, as_script) ==
    IF ~as_script THEN [yielded |-> <<>>, exc |-> "NameError"]
    ELSE LET r == read_args(content, 1)
         IN  IF r.eof THEN [yielded |-> <<>>, exc |-> "RuntimeError"]
             ELSE ParseLoop(content, r.pos, r.args, <<>>)

\* ---- the calls that are checked: every file of up to MaxFile characters
RECURSIVE Texts(_)
Texts(n) ==
    IF n = 0 THEN {<<>>}
    ELSE Texts(n - 1) \cup {Append(t, c) : t \in {u \in Texts(n - 1) : Len(u) = n - 1},
                                           c \in FileChars}

InitParse ==
    /\ InitNoCatalog
    /\ ret = <<>>
    /\ \E content \in Texts(MaxFile), as_script \in BOOLEAN :
          call = [op |-> "parse_file", content |-> content, as_script |-> as_script]

ParseFile == Apply("parse_file", parse_file(call.content, call.as_script))

SpecParse == InitParse /\ [][ParseFile]_vars

(***************************************************************************)
(* Aliases: alias.py, with rename of core.py and of util.py.  The `alias`  *)
(* relation is a set of rows [id, name], `alias_tag` a set of rows         *)
(* <<alias_id, tag_id, value_id>>; a list of tags is given as the set of   *)
(* its members, since neither its order nor its repetitions reach the      *)
(* names of a relation.  No tagging of the model has a value (value_id 0). *)
(***************************************************************************)
\* alias ids are given out up to this one
MaxAliasId == 3

_RESERVEDNAMES ==
    {".", "..", "and", "or", "not", "eq", "ne", "lt", "gt", "le", "ge",
     "AND", "OR", "NOT", "EQ", "NE", "LT", "GT", "LE", "GE"}

\* the names of the model that hold a character validate_name rejects
NamesWithInvalidChars == {"a b"}

\* core.py lines 53-92: the exception raised, or None
validate_name(name) ==
    IF name \in _RESERVEDNAMES THEN "ValueError"
    ELSE IF name \in NamesWithInvalidChars THEN "ValueError"
    ELSE None

\* alias.py lines 91-105, with both conflicts tested
check_names(al, tg, names) ==
    IF Names(al) \cap names # {} THEN "KeyExists"
    ELSE IF Names(tg) \cap names # {} THEN "KeyExists"
    ELSE None

\* the name of a tagging without a value
resolve_tag_value(tg, tag_id, value_id) == (CHOOSE r \in tg : r.id = tag_id).name

\* alias.py lines 63-83
resolve_aliases(al, at, tg, items) ==
    LET aliased_items == Names(al) \cap items
        aliased_ids == {r.id : r \in {r \in al : r.name \in aliased_items}}
        added_taggings == {<<r[2], r[3]>> : r \in {r \in at : r[1] \in aliased_ids}}
    IN  IF aliased_items = {} THEN items
        ELSE {resolve_tag_value(tg, t[1], t[2]) : t \in added_taggings}
                 \cup (items \ aliased_items)

\* alias.py lines 155-212
alias_tuples(al, at, tg, name, tags) ==
    LET conflict == check_names(al, tg, {name})
        resolved == resolve_aliases(al, at, tg, tags)
        missing_tags == resolved \ Names(tg)
    IN  IF conflict # None THEN [exc |-> conflict, pairs |-> {}]
        ELSE IF missing_tags # {} THEN [exc |-> "KeyError", pairs |-> {}]
        ELSE [exc |-> None,
              pairs |-> {<<(CHOOSE r \in tg : r.name = n).id, 0>> : n \in resolved}]

\* alias.py lines 215-234; db is [tag, alias, alias_tag]
add_alias(db, name, tags) ==
    LET pairs == alias_tuples(db.alias, db.alias_tag, db.tag, name, tags)
        new_alias_id == NextRowId(db.alias)
    IN  IF validate_name(name) # None THEN [db |-> db, exc |-> validate_name(name)]
        ELSE IF pairs.exc # None THEN [db |-> db, exc |-> pairs.exc]
        ELSE [db |-> [db EXCEPT
                         !.alias = @ \cup {[id |-> new_alias_id, name |-> name]},
                         !.alias_tag = @ \cup {<<new_alias_id, p[1], p[2]>> :
                                                  p \in pairs.pairs}],
              exc |-> None]

\* alias.py lines 298-299: add_alias for each destination in turn; an
\* exception leaves what the earlier calls added
RECURSIVE CopyLoop(_, _, _, _)
CopyLoop(db, destnames, k, tagset) ==
    IF k > Len(destnames) THEN [db |-> db, exc |-> None]
    ELSE LET r == add_alias(db, destnames[k], tagset)
         IN  IF r.exc # None THEN r ELSE CopyLoop(r.db, destnames, k + 1, tagset)

\* alias.py lines 287-299
copy_alias(db, name, destnames) ==
    IF \E k \in DOMAIN destnames : validate_name(destnames[k]) # None
    THEN [db |-> db, exc |-> "ValueError"]
    ELSE IF name \notin Names(db.alias) THEN [db |-> db, exc |-> "KeyError"]
    ELSE IF check_names(db.alias, db.tag, Range(destnames)) # None
    THEN [db |-> db, exc |-> "KeyExists"]
    ELSE CopyLoop(db, destnames, 1,
                  resolve_aliases(db.alias, db.alias_tag, db.tag, {name}))

\* core.py lines 126-159: the UPDATE statement is built without a space
\* between the table name and SET ('UPDATE aliasSET name = ...'), a syntax
\* error, so a rename that passes the three tests raises OperationalError
rename(table, oldname, newname) ==
    IF newname = "" THEN [table |-> table, exc |-> "ValueError"]
    ELSE IF oldname \notin Names(table) THEN [table |-> table, exc |-> "KeyError"]
    ELSE IF newname \in Names(table) THEN [table |-> table, exc |-> "KeyExists"]
    ELSE [table |-> table, exc |-> "OperationalError"]

\* util.py lines 46-79: the same, but util.py does not define or import
\* KeyExists, so raising it raises NameError
util_rename(table, oldname, newname) ==
    IF newname = "" THEN [table |-> table, exc |-> "ValueError"]
    ELSE IF oldname \notin Names(table) THEN [table |-> table, exc |-> "KeyError"]
    ELSE IF newname \in Names(table) THEN [table |-> table, exc |-> "NameError"]
    ELSE [table |-> table, exc |-> "OperationalError"]

\* tag.py lines 96-99
rename_tag(db, oldname, newname) ==
    LET r == util_rename(db.tag, oldname, newname)
    IN  [db |-> [db EXCEPT !.tag = r.table], exc |-> r.exc]

\* alias.py lines 336-346
rename_alias(db, oldname, newname) ==
    IF newname \in Names(db.tag) THEN [db |-> db, exc |-> "KeyExists"]
    ELSE IF validate_name(oldname) # None THEN [db |-> db, exc |-> "ValueError"]
    ELSE IF validate_name(newname) # None THEN [db |-> db, exc |-> "ValueError"]
    ELSE LET r == rename(db.alias, oldname, newname)
         IN  [db |-> [db EXCEPT !.alias = r.table], exc |-> r.exc]

\* alias.py lines 349-358
delete_alias(db, name) ==
    IF name \notin Names(db.alias) THEN [db |-> db, exc |-> "KeyError"]
    ELSE LET _alias_id == (CHOOSE r \in db.alias : r.name = name).id
         IN  [db |-> [db EXCEPT !.alias = {r \in @ : r.id # _alias_id},
                                !.alias_tag = {r \in @ : r[1] # _alias_id}],
              exc |-> None]

Database == [tag |-> tag, alias |-> alias, alias_tag |-> alias_tag]

\* an operation on the tags and aliases has ended as r says
NamesStep(r) ==
    /\ tag' = r.db.tag
    /\ alias' = r.db.alias
    /\ alias_tag' = r.db.alias_tag
    /\ outcome' = IF r.exc = None THEN "returned" ELSE r.exc
    /\ TagFrame

AddAlias(name, tags) ==
    /\ NextRowId(alias) <= MaxAliasId
    /\ NamesStep(add_alias(Database, name, tags))
    /\ call' = [op |-> "add_alias", name |-> name, tags |-> tags]

CopyAlias(name, destnames) ==
    /\ NextRowId(alias) <= MaxAliasId
    /\ NamesStep(copy_alias(Database, name, destnames))
    /\ call' = [op |-> "copy_alias", name |-> name, destnames |-> destnames]

RenameAlias(oldname, newname) ==
    /\ NamesStep(rename_alias(Database, oldname, newname))
    /\ call' = [op |-> "rename_alias", oldname |-> oldname, newname |-> newname]

DeleteAlias(name) ==
    /\ NamesStep(delete_alias(Database, name))
    /\ call' = [op |-> "delete_alias", name |-> name]

RenameTag(oldname, newname) ==
    /\ NamesStep(rename_tag(Database, oldname, newname))
    /\ call' = [op |-> "rename_tag", oldname |-> oldname, newname |-> newname]

\* ---- the calls that are checked
AliasArgNames == {"a", "x", "and"}

InitAlias ==
    /\ InitPass
    /\ file = <<>>
    /\ file_tag = {}
    /\ setting = <<>>
    /\ exists = {}
    /\ call = [op |-> "none"]
    /\ ret = <<>>
    /\ tag \in {t \in TagTables : Ids(t) \subseteq 1..2}
    /\ alias = {}
    /\ alias_tag = {}
    /\ _registry = <<>>

NextAlias ==
    \/ \E name \in AliasArgNames, tags \in {{}, {"a"}, {"x"}} : AddAlias(name, tags)
    \/ \E name \in {"a", "x"},
          destnames \in {<<"x">>, <<"y">>, <<"y", "y">>, <<"a b">>} :
          CopyAlias(name, destnames)
    \/ \E oldname, newname \in {"", "a", "x"} : RenameAlias(oldname, newname)
    \/ \E name \in AliasArgNames : DeleteAlias(name)
    \/ \E name \in {"", "a", "x"}, reuse_old \in BOOLEAN : CreateTag(name, reuse_old)
    \/ \E oldname, newname \in {"", "a", "b"} : RenameTag(oldname, newname)

SpecAlias == InitAlias /\ [][NextAlias]_vars

(***************************************************************************)
(* Properties of the resolution pass.                                      *)
(***************************************************************************)
Ended == pc \in {"exited", "failed"}

GroupMembers(j) == Range(dupes_by_setsize[j].members)

\* the group was in a batch handed to the external action
Handed(j) == \E k \in DOMAIN invoked : j \in Range(invoked[k])

\* the members of a group that are on disk
Alive(j) == GroupMembers(j) \cap exists

\* the last member, in ranked order, that is on disk
LastAlive(j) ==
    LET ms == SelectSeq(dupes_by_setsize[j].members, LAMBDA m : m \in exists)
    IN  ms[Len(ms)]

\* the taggings a member had when the pass took its snapshot, and has now
StartTags(m) ==
    IF file_id(file, m) \in DOMAIN taggings THEN taggings[file_id(file, m)] ELSE {}

TagsNow(m) == {t \in Taggings : <<file_id(file, m), t>> \in file_tag}

\* C1: after a pass in which the external action left exactly one member of
\* a group, that member carries the taggings of every removed member and no
\* removed member has a tag record left.
C1_SurvivorCarriesUnion ==
    pc = "exited" =>
        \A j \in DOMAIN dupes_by_setsize :
            (Handed(j) /\ Cardinality(Alive(j)) = 1) =>
                \A m \in GroupMembers(j) \ Alive(j) :
                    /\ StartTags(m) \subseteq TagsNow(LastAlive(j))
                    /\ TagsNow(m) = {}

\* C2: a pass in which every member of a group with queued taggings was
\* removed ends with the empty-group error (the ValueError of
\* apply_queued_taggings), not successfully.  Passes that already failed
\* with KeyError while queueing are left aside.
C2_EmptyGroupIsFatal ==
    (Ended /\ outcome # "KeyError"
           /\ \E j \in DOMAIN dupes_by_setsize :
                 /\ Handed(j)
                 /\ Alive(j) = {}
                 /\ dupes_by_setsize[j].hash \in DOMAIN tagging_queue)
        => outcome = "ValueError"

\* C3: a batch of more than one group handed to the external action has at
\* most `limit` paths.
C3_BatchWithinLimit ==
    \A k \in DOMAIN invoked :
        Len(invoked[k]) > 1 => Len(BatchFiles(dupes_by_setsize, invoked[k])) <= limit

\* C7: what duplicated_paths returned to a pass (the catalog does not change
\* during it) has no group keyed by an empty or null fingerprint, every
\* group has at least two members, and a group holds exactly the paths of
\* the rows recorded with its fingerprint, each once.
C7_GroupsAreProperDuplicates ==
    pc # "idle" =>
        LET d == duplicated_paths(file)
        IN  \A j \in DOMAIN d :
                /\ d[j].hash # "" /\ d[j].hash # None
                /\ Len(d[j].members) >= 2
                /\ Range(d[j].members) =
                       {file[k].path :
                           k \in {k \in DOMAIN file : file[k].fingerprint = d[j].hash}}
                /\ Len(d[j].members) = Cardinality(Range(d[j].members))
                /\ \A j2 \in DOMAIN d : d[j2].hash = d[j].hash => j2 = j

\* a pass has grouped a catalog that has rows sharing a null fingerprint, a
\* row with a fingerprint of its own, and a group
C7_Witness ==
    /\ pc = "loop"
    /\ duplicated_paths(file) # <<>>
    /\ \E k1, k2 \in DOMAIN file :
          k1 # k2 /\ file[k1].fingerprint = file[k2].fingerprint
                  /\ ~Truthy(file[k1].fingerprint)
    /\ \E k \in DOMAIN file : CountFp(file, file[k].fingerprint) = 1

\* C8: once the pass has ended with taggings queued for a group that has a
\* member on disk, the last member on disk in ranked order holds them.
C8_LastAliveReceivesQueue ==
    (Ended /\ outcome # "KeyError") =>
        \A j \in DOMAIN dupes_by_setsize :
            (dupes_by_setsize[j].hash \in DOMAIN tagging_queue /\ Alive(j) # {}) =>
                tagging_queue[dupes_by_setsize[j].hash] \subseteq TagsNow(LastAlive(j))

\* C9: a member of a group gains a tagging only when it is the one member of
\* its group left on disk; while two or more are left, none of them gains one.
C9_MergeOnlyOntoSoleSurvivor ==
    \A j \in DOMAIN dupes_by_setsize :
        \A m \in GroupMembers(j) :
            ~(TagsNow(m) \subseteq StartTags(m)) => Alive(j) = {m}

\* a pass has ended after the external action removed a tagged member and
\* left two members, the last of which lacks a queued tagging
C9_Witness ==
    /\ pc = "exited"
    /\ \E j \in DOMAIN dupes_by_setsize :
          /\ Handed(j)
          /\ Cardinality(Alive(j)) >= 2
          /\ dupes_by_setsize[j].hash \in DOMAIN tagging_queue
          /\ ~(tagging_queue[dupes_by_setsize[j].hash] \subseteq StartTags(LastAlive(j)))

\* C18: at every point of a pass, each tagging a member of a group had at
\* the start of the pass is held by the tag records of some member of the
\* group, and a member whose tag records have been deleted has its taggings
\* on a member that is on disk.
C18_NoTaggingLost ==
    \A j \in DOMAIN dupes_by_setsize :
        \A m \in GroupMembers(j) :
            /\ StartTags(m) \subseteq UNION {TagsNow(m2) : m2 \in GroupMembers(j)}
            /\ ~(StartTags(m) \subseteq TagsNow(m))
                  => \E m2 \in Alive(j) : StartTags(m) \subseteq TagsNow(m2)

\* a pass has ended after the external action removed a tagged member, which
\* is in the untagging queue
C18_Witness ==
    /\ Ended
    /\ \E j \in DOMAIN dupes_by_setsize :
          /\ Handed(j)
          /\ \E m \in GroupMembers(j) \ exists :
                StartTags(m) # {} /\ m \in untagging_queue

(***************************************************************************)
(* Properties of the ranker.                                               *)
(***************************************************************************)
\* the file name of a call is one word of n lowercase letters
IsLowerWord(nm, n) == nm = Repeat("a", n)

C20_MultiplierShape ==
    (call.op = "_filecount_multiplier" /\ ret # <<>>) =>
        LET c == call.c
            v == ret[1]
        IN  /\ 340 <= v /\ v <= 6800
            /\ c = 0 => v = 340
            /\ c = 10 => v = 4420
            /\ c = 30 => v = 6800
            /\ v = 6800 => c = 30
            /\ c >= 200 => v = 850
            /\ c < 30 => v <= _filecount_multiplier(c + 1)
            /\ c >= 30 => v >= _filecount_multiplier(c + 1)

\* the multiplier has been computed for 200 siblings, on the clipped tail
C20_Witness ==
    /\ call.op = "_filecount_multiplier"
    /\ call.c = 200
    /\ ret = <<850>>

(***************************************************************************)
(* Properties of the fingerprint engine, the scanner and the settings.     *)
(***************************************************************************)
Finished(op) == call.op = op /\ ret # <<>>

\* the first and the last SPARSE_FINGERPRINT_SIZE bytes of a file, in that order
TwoWindows(content) ==
    Update(ReadAt(content, 0, SPARSE_FINGERPRINT_SIZE),
           ReadAt(content, content.size - SPARSE_FINGERPRINT_SIZE, SPARSE_FINGERPRINT_SIZE))

DynamicDigest ==
    [a \in {"dynamic:SHA256", "dynamic:SHA1", "dynamic:MD5"} |->
        CASE a = "dynamic:SHA256" -> "sha256"
          [] a = "dynamic:SHA1" -> "sha1"
          [] a = "dynamic:MD5" -> "md5"]

\* C4: for a regular file of at least 5 MiB, a dynamic:* algorithm returns
\* the hex digest of the file's first 512 KiB followed by its last 512 KiB
\* (a digest, never None).
C4_SparseDigestOfTwoWindows ==
    (/\ Finished("fingerprint")
     /\ call.algorithm \in DOMAIN DynamicDigest
     /\ call.live.kind = "file"
     /\ call.live.content.size >= SPARSE_FINGERPRINT_THRESHOLD)
        => ret[1] = HexDigest(DynamicDigest[call.algorithm], TwoWindows(call.live.content))

\* C19: for a file smaller than 5 MiB each dynamic:* algorithm returns what
\* the full-file algorithm of the same digest returns, and a full-file
\* fingerprint is the digest of the file's bytes from first to last, however
\* they were cut into chunks.
C19_SmallFilesAreHashedInFull ==
    (Finished("fingerprint") /\ call.live.kind \in {"file", "link"}) =>
        /\ (/\ call.algorithm \in DOMAIN DynamicDigest
            /\ call.live.content.size < SPARSE_FINGERPRINT_THRESHOLD)
              => /\ ret[1] = fingerprint(call.live, DynamicDigest[call.algorithm])
                 /\ ret[1] = HexDigest(DynamicDigest[call.algorithm], call.live.content)
        /\ call.algorithm \in {"sha256", "sha1", "md5"}
              => ret[1] = HexDigest(call.algorithm, call.live.content)

\* a dynamic algorithm has fingerprinted a file one byte short of 5 MiB that
\* has non-zero bytes on both sides of a chunk seam
C19_Witness ==
    /\ Finished("fingerprint")
    /\ call.algorithm \in DOMAIN DynamicDigest
    /\ call.live.kind = "file"
    /\ call.live.content.size = SPARSE_FINGERPRINT_THRESHOLD - 1
    /\ call.live.content.marks = {ReadChunk - 1, ReadChunk}
    /\ ret[1] = HexDigest(DynamicDigest[call.algorithm], call.live.content)

\* C5: an entry that exists, whose recorded and live mtime strings have the
\* same whole-seconds part and differ, is listed in badmtime and not in
\* modified; so too when one of the strings has no fractional part.
WholeSeconds(mtime) == SubSeq(mtime, 1, Len(StrfSeconds(0)))

ScannedRow == call.rows[Len(call.rows)]

C5_SubSecondDifferenceIsBadMtime ==
    (/\ Finished("changed_paths")
     /\ call.fs[ScannedRow.path].kind \in {"file", "dir", "link"}
     /\ WholeSeconds(ScannedRow.mod_time) = WholeSeconds(file_mtime(call.fs[ScannedRow.path]))
     /\ ScannedRow.mod_time # file_mtime(call.fs[ScannedRow.path]))
        => /\ ScannedRow.path \in Range(ret[1].badmtime)
           /\ ScannedRow.path \notin Range(ret[1].modified)

\* C10: after change_fingerprint_algorithm with a recognized algorithm A,
\* get_fingerprint_algorithm returns A, every recorded size is -1, and
\* invalidated_paths reports every entry that exists on disk.
C10_ChangeSetsAlgorithmAndInvalidates ==
    (call.op = "change_fingerprint_algorithm" /\ call.algorithm \in AlgorithmNames)
        => /\ get_fingerprint_algorithm(setting) = call.algorithm
           /\ \A k \in DOMAIN file : file[k].size = -1
           /\ \A k \in DOMAIN file :
                 file[k].path \in exists
                    => file[k].path \in Range(invalidated_paths(file, exists, 1))

\* C11: change_fingerprint_algorithm with an unrecognized name ends with the
\* ValueError at its caller and leaves the configured algorithm and every
\* row of the catalog, the sizes included, as they were.
C11_UnknownAlgorithmChangesNothing ==
    [][\A a \in UnknownNames :
          ChangeFingerprintAlgorithm(a)
             => outcome' = "ValueError" /\ setting' = setting /\ file' = file]_vars

\* C12: fingerprint raises ValueError for every algorithm value that is
\* neither None nor one of the eight registered names, whatever is at the
\* path; with None it returns what dynamic:SHA256 returns.
C12_UnregisteredAlgorithmRaises ==
    Finished("fingerprint") =>
        /\ call.algorithm \notin AlgorithmNames \cup {None}
              => ret[1] = Raised("ValueError")
        /\ call.algorithm = None
              => ret[1] = fingerprint(call.live, DEFAULT_ALGORITHM)

(***************************************************************************)
(* Properties of repair_path.                                              *)
(***************************************************************************)
Recorded(f, p) == \E k \in DOMAIN f : f[k].path = p

RowOf(f, p) == f[CHOOSE k \in DOMAIN f : f[k].path = p]

\* C13: repair_path with ignore_fingerprint=True, called for a recorded
\* oldpath and an unrecorded newpath that is on disk with the recorded type,
\* returns and re-points the record of oldpath to newpath, whatever the
\* recorded fingerprint is.
C13_IgnoreFingerprintRepairs ==
    [][\A oldpath, newpath \in RepairPaths :
          (/\ RepairPath(oldpath, newpath, TRUE)
           /\ newpath \in exists
           /\ Recorded(file, oldpath)
           /\ ~Recorded(file, newpath)
           /\ (RowOf(file, oldpath).is_dir # 0) = IsDirOnDisk(newpath))
             => /\ outcome' = "returned"
                /\ file' = Repointed(file, oldpath, newpath)]_vars

\* C14: a repair_path that fails changes no row; one that returns changes
\* only the path of the row of oldpath; no two rows ever have the same path.
C14_RepairFrame ==
    [][\A oldpath, newpath \in RepairPaths, ign \in BOOLEAN :
          RepairPath(oldpath, newpath, ign)
             => /\ outcome' # "returned" => file' = file
                /\ outcome' = "returned"
                      => file' = Repointed(file, oldpath, newpath)
                /\ \A k1, k2 \in DOMAIN file' :
                      file'[k1].path = file'[k2].path => k1 = k2]_vars

\* a repair_path onto a path that has a row of its own has failed
C14_Witness ==
    /\ call.op = "repair_path"
    /\ call.newpath \in exists
    /\ Recorded(file, call.oldpath)
    /\ Recorded(file, call.newpath)
    /\ call.oldpath # call.newpath
    /\ outcome # "returned"

(***************************************************************************)
(* Properties of the scans under concurrent removals.                      *)
(***************************************************************************)
\* C15: whenever a catalogued path is removed while invalidated_paths or
\* changed_paths scans, the scan raises nothing, and once it has returned it
\* has gone through every row.
C15_VanishedPathIsSwallowed ==
    /\ pc # "failed"
    /\ outcome # "FileNotFoundError"
    /\ pc = "done" => itpos = Len(file) + 1

(***************************************************************************)
(* Properties of main.                                                     *)
(***************************************************************************)
\* C16: in a run of dupes with --command and --single, every batch handed
\* to the external action holds exactly one duplicate group, whatever the
\* limit.
C16_SingleMeansOneGroupPerBatch ==
    (call.op = "main" /\ call.args.single) =>
        \A k \in DOMAIN invoked : Len(invoked[k]) = 1

(***************************************************************************)
(* Properties of the sibling-count cache.                                  *)
(***************************************************************************)
\* C17: every call of rank_duplicates starts without cache entries: it
\* returns the order that the sibling counts on disk at the time of the
\* call give, whatever the counts were at earlier calls.
C17_EveryPassCountsAfresh ==
    (call.op = "rank_duplicates" /\ ret # <<>>)
        => ret[1] = rank_duplicates(call.dupes, <<>>, exists)

(***************************************************************************)
(* Properties of the scanner's classification.                             *)
(***************************************************************************)
Listed(bucket) == Range(ret[1][bucket])

\* C21: in the result of changed_paths an entry listed as broken or deleted
\* is in no other list (modified, type, badmtime, linkres), no entry is both
\* broken and deleted, and no entry is both modified and badmtime.
C21_BucketsExclude ==
    Finished("changed_paths") =>
        /\ \A p \in Listed("broken") \cup Listed("deleted") :
              p \notin Listed("modified") \cup Listed("type")
                          \cup Listed("badmtime") \cup Listed("linkres")
        /\ Listed("broken") \cap Listed("deleted") = {}
        /\ Listed("modified") \cap Listed("badmtime") = {}

\* a scan of two rows has listed the first as deleted and the second, whose
\* recorded mtime differs from the live one below the second, as badmtime
C21_Witness ==
    /\ Finished("changed_paths")
    /\ Len(call.rows) = 2
    /\ Listed("deleted") = {GoneRow.path}
    /\ Listed("badmtime") = {ScannedRow.path}
    /\ ScannedRow.mod_time # file_mtime(call.fs[ScannedRow.path])

\* C28: an entry that exists and whose recorded and live mtimes differ in the
\* whole seconds is listed in modified and not in badmtime; so too when
\* neither string has a fractional part and only the last digit of the
\* seconds differs ('...:18' recorded, '...:19' live).
C28_WholeSecondDifferenceIsModified ==
    (/\ Finished("changed_paths")
     /\ call.fs[ScannedRow.path].kind \in {"file", "dir", "link"}
     /\ WholeSeconds(ScannedRow.mod_time)
           # WholeSeconds(file_mtime(call.fs[ScannedRow.path])))
        => /\ ScannedRow.path \in Listed("modified")
           /\ ScannedRow.path \notin Listed("badmtime")

\* the nine digits of the nanoseconds n, trailing zeros removed
FractionDigits(n) == StripZeros(Repeat("0", 9 - Len(Digits(n))) \o Digits(n))

\* C22: file_mtime returns 'YYYY-MM-DD HH:MM:SS' followed, exactly when the
\* nanoseconds n of the mtime are not zero, by '.' and the digits of n/10^9
\* with the trailing zeros removed; so no other nanosecond part of the same
\* second gives the same string.
C22_FractionOfTheSecond ==
    Finished("file_mtime") =>
        /\ ret[1] = StrfSeconds(call.st.sec)
                       \o (IF call.st.nsec = 0 THEN <<>>
                           ELSE <<".">> \o FractionDigits(call.st.nsec))
        /\ \A n \in MtimeNanos \ {call.st.nsec} :
              file_mtime([call.st EXCEPT !.nsec = n]) # ret[1]

\* the length of the longest run at s[i] that is a letter followed by 2 to
\* 30 lowercase letters, whatever stands before and after it, or 0
RunLenAt(s, i) ==
    IF ~(i <= Len(s) /\ s[i] \in LowerChars \cup UpperChars) THEN 0
    ELSE LET tails == {k \in WordMinTail..WordMaxTail :
                          /\ i + k <= Len(s)
                          /\ \A j \in (i + 1)..(i + k) : s[j] \in LowerChars}
         IN  IF tails = {} THEN 0
             ELSE 1 + (CHOOSE k \in tails : \A k2 \in tails : k2 <= k)

RECURSIVE RunLens(_, _)
RunLens(s, i) ==
    IF i > Len(s) THEN <<>>
    ELSE IF RunLenAt(s, i) = 0 THEN RunLens(s, i + 1)
    ELSE <<RunLenAt(s, i)>> \o RunLens(s, i + RunLenAt(s, i))

\* C23: _filename_descriptiveness is the sum of the squared lengths of every
\* run of a letter followed by 2 to 30 lowercase letters, wherever the run
\* occurs, also inside a longer token of digits and letters:
\* '1d0f3fe45350f09bbf0453,foo,bar' scores 27.
C23_EveryRunCounts ==
    Finished("_filename_descriptiveness") =>
        /\ ret[1] = SumSquares(RunLens(SplitextRoot(call.filename), 1))
        /\ call.filename = HexExample => ret[1] = 27

(***************************************************************************)
(* Properties of the subcommand registry.                                  *)
(***************************************************************************)
NamedSubcommands(subcommands) == {Lower(s) : s \in Range(AsList(subcommands))}

\* C24: unregister(subcommands, must_exist=True) raises KeyError when a named
\* subcommand is not registered; with must_exist=False it never raises for
\* that; in both modes no named subcommand is registered afterwards (names
\* compared case-folded).
C24_UnregisterContract ==
    [][\A subcommands \in SubcommandArgs, must_exist \in BOOLEAN :
          Unregister(subcommands, must_exist) =>
              /\ (must_exist /\ NamedSubcommands(subcommands) \ DOMAIN _registry # {})
                    => outcome' = "KeyError"
              /\ ~must_exist => outcome' = "returned"
              /\ NamedSubcommands(subcommands) \cap DOMAIN _registry' = {}]_vars

(***************************************************************************)
(* Properties of tags and aliases.                                         *)
(***************************************************************************)
\* C25: create_tag with a new, non-empty name returns on a tag table of any
\* size, the empty one too, and adds one tag: with reuse_old=True under the
\* lowest id greater than 1 that no tag uses, with reuse_old=False under an
\* id above the highest in use.
C25_CreateTagPicksFreeId ==
    [][\A name \in TagNames \ ({""} \cup Names(tag)), reuse_old \in BOOLEAN :
          (CreateTag(name, reuse_old) \/ CoreCreateTag(name, reuse_old)) =>
              /\ outcome' = "returned"
              /\ \E id \in 1..(MaxTagId + Cardinality(TagNames) + 1) :
                    /\ tag' = tag \cup {[id |-> id, name |-> name]}
                    /\ id \notin Ids(tag)
                    /\ reuse_old =>
                          /\ id > 1
                          /\ \A j \in 2..(id - 1) : j \in Ids(tag)
                    /\ ~reuse_old => \A j \in Ids(tag) : id > j]_vars

(***************************************************************************)
(* Properties of automation files.                                         *)
(***************************************************************************)
\* the lines of a text: what stands between its newlines
RECURSIVE LinesFrom(_, _, _)
LinesFrom(text, k, cur) ==
    IF k > Len(text) THEN (IF cur = <<>> THEN <<>> ELSE <<cur>>)
    ELSE IF text[k] = "\n" THEN <<cur>> \o LinesFrom(text, k + 1, <<>>)
    ELSE LinesFrom(text, k + 1, Append(cur, text[k]))

\* the argument sequences of the lines from the k-th on: runs of lines that
\* are not blank
RECURSIVE SequencesFrom(_, _, _)
SequencesFrom(lines, k, cur) ==
    IF k > Len(lines) THEN (IF cur = <<>> THEN <<>> ELSE <<cur>>)
    ELSE IF lines[k] = <<>>
    THEN (IF cur = <<>> THEN <<>> ELSE <<cur>>) \o SequencesFrom(lines, k + 1, <<>>)
    ELSE SequencesFrom(lines, k + 1, Append(cur, lines[k]))

\* the tuples C26 describes for a file
DescribedTuples(content) ==
    LET lines == LinesFrom(content, 1, <<>>)
        seqs == SequencesFrom(lines, 1, <<>>)
        blank_first == lines # <<>> /\ lines[1] = <<>>
        shared == IF blank_first \/ seqs = <<>> THEN <<>> ELSE seqs[1]
        rest == IF blank_first \/ seqs = <<>> THEN seqs ELSE Tail(seqs)
    IN  [k \in DOMAIN rest |-> <<shared, rest[k]>>]

\* C26: parse_file yields one (shared_args, args) tuple for each non-empty
\* argument sequence after the shared one, in file order, each with the same
\* shared_args (empty when the file starts with a blank line); arguments are
\* whole lines, a sequence ends at a blank line or at the end of the file,
\* and blank lines between sequences yield nothing.
C26_OneTuplePerSequence ==
    Finished("parse_file") =>
        /\ ret[1].exc = None
        /\ ret[1].yielded = DescribedTuples(call.content)

(***************************************************************************)
(* Properties of the batching of the resolution pass.                      *)
(***************************************************************************)
\* the batches handed to the external action that hold the j-th group
BatchesOf(j) == {k \in DOMAIN invoked : \E i \in DOMAIN invoked[k] : invoked[k][i] = j}

\* C27: when a pass has ended without an exception, every retained group is
\* in exactly one batch, once, and that batch has been handed to the external
\* action; for every limit >= 1 and all group sizes, also when the first
\* (largest) group alone has `limit` or more paths.
C27_EveryGroupIsHanded ==
    pc = "exited" =>
        \A j \in DOMAIN dupes_by_setsize :
            /\ Cardinality(BatchesOf(j)) = 1
            /\ \A k \in BatchesOf(j) :
                  Cardinality({i \in DOMAIN invoked[k] : invoked[k][i] = j}) = 1

\* C29: when the external action removes a group member that has no taggings
\* at all, the pass does not fail: every path the action removed is queued for
\* tag-record deletion, and the taggings of the removed paths that have any
\* are in the pending merge of their group.
C29_UntaggedMemberIsHarmless ==
    [][(\E m \in exists \ exists' : file_id(file, m) \notin DOMAIN taggings) =>
          /\ outcome' # "KeyError"
          /\ (exists \ exists') \subseteq untagging_queue'
          /\ \A m \in exists \ exists' :
                file_id(file, m) \in DOMAIN taggings =>
                    /\ HashOf(dupes_by_setsize, m) \in DOMAIN tagging_queue'
                    /\ taggings[file_id(file, m)]
                          \subseteq tagging_queue'[HashOf(dupes_by_setsize, m)]]_vars

\* the names a call would bring into the alias or the tag relation
Introduced(c) ==
    CASE c.op = "add_alias" -> {c.name}
      [] c.op = "copy_alias" -> Range(c.destnames)
      [] c.op \in {"rename_alias", "rename_tag"} -> {c.newname}
      [] c.op \in {"tag.create_tag", "core.create_tag"} -> {c.name}
      [] OTHER -> {}

\* C30: after any sequence of add_alias, copy_alias, rename_alias,
\* delete_alias, create_tag and rename_tag no name is both an alias name and a
\* tag name and no two aliases have the same name; an operation that brings
\* in a name that is already an alias or a tag name fails and changes nothing.
C30_AliasAndTagNamesApart ==
    [][/\ Names(alias') \cap Names(tag') = {}
       /\ Cardinality(Names(alias')) = Cardinality(alias')
       /\ Introduced(call') \cap (Names(alias) \cup Names(tag)) # {}
             => /\ outcome' # "returned"
                /\ UNCHANGED <<tag, alias, alias_tag>>]_vars

====
